---- MODULE Spec2Model ----
(***************************************************************************)
(* Token-Surfer V6: the Strategy engine of src/strategy.ts as a state      *)
(* machine.                                                                *)
(*                                                                         *)
(* Numbers.  The TypeScript `number` fields that hold prices, percentages  *)
(* and equity are modelled as exact rationals <<numerator, denominator>>   *)
(* in lowest terms with a positive denominator (prices are in dollars, so  *)
(* 105.6 is <<528, 5>>).  Counters and indexes (bar count, entryBar,       *)
(* cooldownRemaining, totalTrades, ...) are integers.                      *)
(*                                                                         *)
(* Configuration.  Every strategy parameter of src/token-config.ts is read *)
(* from the environment (envNum) with a default; the model carries the     *)
(* environment's values in the variable cfg, chosen once at start-up.      *)
(***************************************************************************)
EXTENDS Integers, Sequences, FiniteSets, TLC

VARIABLES
    cfg,                \* token-config.ts: the strategy parameters read from the environment
    bars,               \* Strategy.bars
    emaFastArr,         \* Strategy.emaFastArr
    emaSlowArr,         \* Strategy.emaSlowArr
    atrArr,             \* Strategy.atrArr
    cooldownRemaining,  \* Strategy.cooldownRemaining
    position,           \* Strategy.position (Null or a Position record)
    totalTrades,        \* Strategy.totalTrades
    totalWins,          \* Strategy.totalWins
    totalPnlPct,        \* Strategy.totalPnlPct
    peakEquity,         \* Strategy.peakEquity
    equity,             \* Strategy.equity
    maxDrawdown,        \* Strategy.maxDrawdown
    currentBarStart,    \* runtime.ts: start of the open bucket in ms, 0 before the first tick
    currentBarOpen,     \* runtime.ts: first price of the open bucket
    currentBarHigh,     \* runtime.ts: highest price of the open bucket
    currentBarLow,      \* runtime.ts: lowest price of the open bucket
    currentBarClose,    \* runtime.ts: last price of the open bucket
    lastPrice,          \* runtime.ts: the last price a poll returned
    mainPc,             \* runtime.ts main(): "init" until init() has returned, then "running"
    tasks,              \* the mainLoop calls in flight, each at its pending await
    clock,              \* Date.now(), in ms
    barsFile,           \* DATA_DIR/<symbol>-bars.json
    stateFile,          \* DATA_DIR/<symbol>-state.json
    stateTmp,           \* DATA_DIR/<symbol>-state.json.tmp, the file saveState writes
    tradesFile,         \* DATA_DIR/<symbol>-trades.json
    observed,           \* history: the prices given to processPrice for the open bucket, with their times
    ret                 \* the last call: its name, its argument and what it returned

vars == <<cfg, bars, emaFastArr, emaSlowArr, atrArr, cooldownRemaining, position,
          totalTrades, totalWins, totalPnlPct, peakEquity, equity, maxDrawdown,
          currentBarStart, currentBarOpen, currentBarHigh, currentBarLow,
          currentBarClose, lastPrice, mainPc, tasks, clock,
          barsFile, stateFile, stateTmp, tradesFile, observed, ret>>

\* the bar aggregator of runtime.ts
aggregator == <<currentBarStart, currentBarOpen, currentBarHigh, currentBarLow,
                currentBarClose>>

\* the files of state-manager.ts
disk == <<barsFile, stateFile, stateTmp, tradesFile>>

\* everything outside the Strategy object
runtime == <<aggregator, lastPrice, mainPc, tasks, clock, disk, observed>>

ledger == <<totalTrades, totalWins, totalPnlPct, peakEquity, equity, maxDrawdown>>

series == <<bars, emaFastArr, emaSlowArr, atrArr>>

----------------------------------------------------------------------------
(* Exact rational arithmetic                                               *)

Abs(n) == IF n < 0 THEN -n ELSE n

RECURSIVE GCD(_, _)
GCD(a, b) == IF b = 0 THEN a ELSE GCD(b, a % b)

RNorm(n, d) ==
    LET s == IF d < 0 THEN -1 ELSE 1
        g == GCD(Abs(n), Abs(d))
    IN  <<(s * n) \div g, (s * d) \div g>>

R(n) == <<n, 1>>

Frac(n, d) == RNorm(n, d)

RAdd(x, y) ==
    LET g == GCD(x[2], y[2])
    IN  RNorm(x[1] * (y[2] \div g) + y[1] * (x[2] \div g), (x[2] \div g) * y[2])

RNeg(x) == <<-x[1], x[2]>>

RSub(x, y) == RAdd(x, RNeg(y))

RMul(x, y) ==
    LET a == RNorm(x[1], y[2])
        b == RNorm(y[1], x[2])
    IN  RNorm(a[1] * b[1], a[2] * b[2])

\* x / y for y # 0
RDiv(x, y) == RMul(x, RNorm(y[2], y[1]))

RSign(x) == IF x[1] > 0 THEN 1 ELSE IF x[1] < 0 THEN -1 ELSE 0

RLt(x, y) == RSign(RSub(x, y)) < 0

RLe(x, y) == RSign(RSub(x, y)) <= 0

RGt(x, y) == RLt(y, x)

RGe(x, y) == RLe(y, x)

\* Math.max / Math.min / Math.abs
RMax(x, y) == IF RLt(x, y) THEN y ELSE x

RMin(x, y) == IF RLt(y, x) THEN y ELSE x

RAbs(x) == <<Abs(x[1]), x[2]>>

IsRat(x) == /\ x \in Int \X Int
            /\ x[2] > 0
            /\ GCD(Abs(x[1]), x[2]) = 1

----------------------------------------------------------------------------
(* Configuration (src/token-config.ts)                                     *)

EMA_FAST_LEN == cfg.EMA_FAST_LEN

EMA_SLOW_LEN == cfg.EMA_SLOW_LEN

ATR_LEN == cfg.ATR_LEN

ZONE_ATR_MULT == cfg.ZONE_ATR_MULT

MIN_EMA_SLOPE == cfg.MIN_EMA_SLOPE

COOLDOWN_BARS == cfg.COOLDOWN_BARS

TP1_PCT == cfg.TP1_PCT

TP2_PCT == cfg.TP2_PCT

SL_PCT == cfg.SL_PCT

TRAIL_PCT == cfg.TRAIL_PCT

MAX_BARS_IN_POS == cfg.MAX_BARS_IN_POS

IMax(a, b) == IF a < b THEN b ELSE a

\* token-config.ts: Math.min in place of Math.max
warmupOfMin(slowLen, atrLen) == (IF slowLen < atrLen THEN slowLen ELSE atrLen) + 5

\* token-config.ts: Math.max(EMA_SLOW_LEN, ATR_LEN) + 5
warmupOf(slowLen, atrLen) == IMax(slowLen, atrLen) + 5

WARMUP_BARS == warmupOf(EMA_SLOW_LEN, ATR_LEN)

\* token-config.ts: the defaults of EMA_SLOW_LEN and ATR_LEN
DefaultEmaSlowLen == 50

DefaultAtrLen == 14

\* The environment of the modelled deployment.  Percentages keep the
\* defaults of token-config.ts (TP1 8%, SL 4%, slope 3%, zone 0.5 ATR);
\* the lengths and bar counts are set by environment variables to small
\* values so that warm-up, time-out and cool-down happen within the bounds.
BaseConfig ==
    [ EMA_FAST_LEN    |-> 1,
      EMA_SLOW_LEN    |-> 3,
      ATR_LEN         |-> 2,
      ZONE_ATR_MULT   |-> Frac(1, 2),
      MIN_EMA_SLOPE   |-> Frac(3, 100),
      COOLDOWN_BARS   |-> 2,
      TP1_PCT         |-> Frac(8, 100),
      TP2_PCT         |-> R(0),
      SL_PCT          |-> Frac(4, 100),
      TRAIL_PCT       |-> R(0),
      MAX_BARS_IN_POS |-> 2 ]

\* TRAIL_FIXED_PCT=0.03
TrailConfig == [BaseConfig EXCEPT !.TRAIL_PCT = Frac(3, 100)]

\* TRAIL_FIXED_PCT=0.03 TP2_FIXED_PCT=0.10
Tp2TrailConfig == [TrailConfig EXCEPT !.TP2_PCT = Frac(10, 100)]

\* MIN_EMA_SLOPE=0
ZeroSlopeConfig == [BaseConfig EXCEPT !.MIN_EMA_SLOPE = R(0)]

\* TP2_FIXED_PCT=0.10
Tp2Config == [BaseConfig EXCEPT !.TP2_PCT = Frac(10, 100)]

----------------------------------------------------------------------------
(* Types (src/strategy.ts)                                                 *)

Null == [kind |-> "null"]

\* interface Bar
Bar(t, o, h, l, c) == [t |-> t, o |-> o, h |-> h, l |-> l, c |-> c]

\* a bar whose open, high, low and close are all p
FlatBar(t, p) == Bar(t, p, p, p, p)

----------------------------------------------------------------------------
(* Strategy.addBar                                                         *)

\* the spike filter clamping from above only
clampBarUpperOnly(bar, prevClose) ==
    LET maxPrice == RMul(prevClose, R(3))
        minPrice == RMul(prevClose, Frac(33, 100))
    IN  IF \/ RGt(bar.h, maxPrice)
           \/ RLt(bar.l, minPrice)
           \/ RGt(bar.o, maxPrice)
           \/ RGt(bar.c, maxPrice)
        THEN [ t |-> bar.t,
               o |-> RMin(bar.o, maxPrice),
               h |-> RMin(bar.h, maxPrice),
               l |-> RMin(bar.l, maxPrice),
               c |-> RMin(bar.c, maxPrice) ]
        ELSE bar

\* addBar, spike filter: the bar as it is pushed, given the previous close
clampBar(bar, prevClose) ==
    LET maxPrice == RMul(prevClose, R(3))
        minPrice == RMul(prevClose, Frac(33, 100))
    IN  IF \/ RGt(bar.h, maxPrice)
           \/ RLt(bar.l, minPrice)
           \/ RGt(bar.o, maxPrice)
           \/ RGt(bar.c, maxPrice)
        THEN [ t |-> bar.t,
               o |-> RMin(RMax(bar.o, minPrice), maxPrice),
               h |-> RMin(RMax(bar.h, minPrice), maxPrice),
               l |-> RMin(RMax(bar.l, minPrice), maxPrice),
               c |-> RMin(RMax(bar.c, minPrice), maxPrice) ]
        ELSE bar

\* addBar: the spike filter applies only when a previous bar exists
sanitize(bs, bar) ==
    IF Len(bs) > 0 THEN clampBar(bar, bs[Len(bs)].c) ELSE bar

\* addBar: true range of bs[i] (the first bar has no previous close)
trueRange(bs, i) ==
    IF i = 1
    THEN RSub(bs[1].h, bs[1].l)
    ELSE RMax(RMax(RSub(bs[i].h, bs[i].l),
                   RAbs(RSub(bs[i].h, bs[i - 1].c))),
              RAbs(RSub(bs[i].l, bs[i - 1].c)))

\* addBar: the loop that sums the true ranges of bs[1..n]
RECURSIVE trSum(_, _)
trSum(bs, n) ==
    IF n = 1 THEN trueRange(bs, 1)
    ELSE RAdd(trSum(bs, n - 1), trueRange(bs, n))

\* addBar: the value pushed on an EMA array of length len, bs already
\* holding the new bar
emaPush(len, bs, arr) ==
    LET n == Len(bs)
        k == Frac(2, len + 1)
    IN  IF n = 1 THEN bs[n].c
        ELSE RAdd(RMul(bs[n].c, k), RMul(arr[n - 1], RSub(R(1), k)))

\* addBar keeping the simple average for one bar more, `n <= ATR_LEN + 1`
atrPushSwitchLate(bs, arr) ==
    LET n == Len(bs)
    IN  IF n = 1 THEN RSub(bs[1].h, bs[1].l)
        ELSE IF n <= ATR_LEN + 1
             THEN RDiv(trSum(bs, n), R(n))
             ELSE RDiv(RAdd(RMul(arr[n - 1], R(ATR_LEN - 1)), trueRange(bs, n)),
                       R(ATR_LEN))

\* addBar: the value pushed on atrArr, bs already holding the new bar
atrPush(bs, arr) ==
    LET n == Len(bs)
    IN  IF n = 1 THEN RSub(bs[1].h, bs[1].l)
        ELSE IF n <= ATR_LEN
             THEN RDiv(trSum(bs, n), R(n))
             ELSE RDiv(RAdd(RMul(arr[n - 1], R(ATR_LEN - 1)), trueRange(bs, n)),
                       R(ATR_LEN))

\* addBar ticking the cooldown without the test for zero
tickCooldownBelowZero(c) == c - 1

\* addBar: the cooldown tick
tickCooldown(c) == IF c > 0 THEN c - 1 ELSE c

\* addBar dropping a bar the spike filter rejects instead of clamping it
pushBarDropsSpike(S, bar) ==
    LET bs == Append(S.bars, sanitize(S.bars, bar))
    IN  IF sanitize(S.bars, bar) # bar THEN S
        ELSE [ bars |-> bs,
               emaFastArr |-> Append(S.emaFastArr, emaPush(EMA_FAST_LEN, bs, S.emaFastArr)),
               emaSlowArr |-> Append(S.emaSlowArr, emaPush(EMA_SLOW_LEN, bs, S.emaSlowArr)),
               atrArr |-> Append(S.atrArr, atrPush(bs, S.atrArr)) ]

\* addBar: the bar list and the three indicator series after pushing bar
pushBar(S, bar) ==
    LET bs == Append(S.bars, sanitize(S.bars, bar))
    IN  [ bars |-> bs,
          emaFastArr |-> Append(S.emaFastArr, emaPush(EMA_FAST_LEN, bs, S.emaFastArr)),
          emaSlowArr |-> Append(S.emaSlowArr, emaPush(EMA_SLOW_LEN, bs, S.emaSlowArr)),
          atrArr |-> Append(S.atrArr, atrPush(bs, S.atrArr)) ]

Series == [ bars |-> bars, emaFastArr |-> emaFastArr,
            emaSlowArr |-> emaSlowArr, atrArr |-> atrArr ]

addBar(bar) ==
    LET S == pushBar(Series, bar)
    IN  /\ bars' = S.bars
        /\ emaFastArr' = S.emaFastArr
        /\ emaSlowArr' = S.emaSlowArr
        /\ atrArr' = S.atrArr
        /\ cooldownRemaining' = tickCooldown(cooldownRemaining)
        /\ ret' = [op |-> "addBar", arg |-> bar, out |-> [kind |-> "void"]]
        /\ UNCHANGED <<cfg, runtime, position, ledger>>

----------------------------------------------------------------------------
(* Strategy.getIndicators                                                  *)

indicatorsOf(bs, fast, slow, atrs) ==
    LET n == Len(bs)
    IN  IF n = 0
        THEN [ emaFast |-> R(0), emaSlow |-> R(0), atr |-> R(0), slope |-> R(0),
               buyZoneTop |-> R(0), ready |-> FALSE ]
        ELSE LET emaFast == fast[n]
                 emaSlow == slow[n]
                 atr     == atrs[n]
             IN  [ emaFast |-> emaFast,
                   emaSlow |-> emaSlow,
                   atr |-> atr,
                   slope |-> IF RGt(emaSlow, R(0))
                             THEN RDiv(RSub(emaFast, emaSlow), emaSlow)
                             ELSE R(0),
                   buyZoneTop |-> RSub(emaFast, RMul(atr, ZONE_ATR_MULT)),
                   ready |-> n >= WARMUP_BARS ]

getIndicators == indicatorsOf(bars, emaFastArr, emaSlowArr, atrArr)

getIndicatorsCall ==
    /\ ret' = [op |-> "getIndicators", arg |-> Null, out |-> getIndicators]
    /\ UNCHANGED <<cfg, runtime, series, cooldownRemaining, position, ledger>>

----------------------------------------------------------------------------
(* Strategy.checkEntry                                                     *)

\* checkEntry without the `this.position !== null` gate
entrySignalNoPositionGate(ind, pos, cooldown, currentPrice) ==
    IF ~ind.ready THEN Null
    ELSE IF cooldown > 0 THEN Null
    ELSE IF RLt(ind.slope, MIN_EMA_SLOPE) THEN Null
    ELSE IF RGt(currentPrice, ind.buyZoneTop) THEN Null
    ELSE IF RLe(ind.atr, R(0)) THEN Null
    ELSE [ kind |-> "entry",
           price |-> currentPrice,
           emaFast |-> ind.emaFast,
           emaSlow |-> ind.emaSlow,
           atr |-> ind.atr,
           slope |-> ind.slope,
           zoneDepth |-> RDiv(RSub(ind.buyZoneTop, currentPrice), ind.atr) ]

\* checkEntry with the zone gate written `currentPrice >= ind.buyZoneTop`
entrySignalStrictZone(ind, pos, cooldown, currentPrice) ==
    IF ~ind.ready THEN Null
    ELSE IF pos # Null THEN Null
    ELSE IF cooldown > 0 THEN Null
    ELSE IF RLt(ind.slope, MIN_EMA_SLOPE) THEN Null
    ELSE IF RGe(currentPrice, ind.buyZoneTop) THEN Null
    ELSE IF RLe(ind.atr, R(0)) THEN Null
    ELSE [ kind |-> "entry",
           price |-> currentPrice,
           emaFast |-> ind.emaFast,
           emaSlow |-> ind.emaSlow,
           atr |-> ind.atr,
           slope |-> ind.slope,
           zoneDepth |-> RDiv(RSub(ind.buyZoneTop, currentPrice), ind.atr) ]

entrySignal(ind, pos, cooldown, currentPrice) ==
    IF ~ind.ready THEN Null
    ELSE IF pos # Null THEN Null
    ELSE IF cooldown > 0 THEN Null
    ELSE IF RLt(ind.slope, MIN_EMA_SLOPE) THEN Null
    ELSE IF RGt(currentPrice, ind.buyZoneTop) THEN Null
    ELSE IF RLe(ind.atr, R(0)) THEN Null
    ELSE [ kind |-> "entry",
           price |-> currentPrice,
           emaFast |-> ind.emaFast,
           emaSlow |-> ind.emaSlow,
           atr |-> ind.atr,
           slope |-> ind.slope,
           zoneDepth |-> RDiv(RSub(ind.buyZoneTop, currentPrice), ind.atr) ]

checkEntry(currentPrice) ==
    /\ ret' = [ op |-> "checkEntry", arg |-> currentPrice,
                out |-> entrySignal(getIndicators, position, cooldownRemaining,
                                    currentPrice) ]
    /\ UNCHANGED <<cfg, runtime, series, cooldownRemaining, position, ledger>>

----------------------------------------------------------------------------
(* Strategy.openPosition                                                   *)

\* openPosition recording the bar count as the entry bar
newPositionEntryAtCount(bs, entryPrice, tokenAmount, usdcSpent, txSig, now) ==
    LET n == Len(bs)
    IN  [ kind |-> "position",
          entryPrice |-> entryPrice,
          entryBar |-> n,
          entryTime |-> IF n >= 1 THEN bs[n].t ELSE now,
          highSinceEntry |-> entryPrice,
          tokenAmount |-> tokenAmount,
          usdcSpent |-> usdcSpent,
          txSignature |-> txSig ]

\* the Position record openPosition builds; now is Date.now() in seconds
newPosition(bs, entryPrice, tokenAmount, usdcSpent, txSig, now) ==
    LET n == Len(bs)
    IN  [ kind |-> "position",
          entryPrice |-> entryPrice,
          entryBar |-> n - 1,
          entryTime |-> IF n >= 1 THEN bs[n].t ELSE now,
          highSinceEntry |-> entryPrice,
          tokenAmount |-> tokenAmount,
          usdcSpent |-> usdcSpent,
          txSignature |-> txSig ]

\* what openPosition does to the position slot and what it returns
openResult(pos, bs, entryPrice, tokenAmount, usdcSpent, txSig, now) ==
    [ position |-> newPosition(bs, entryPrice, tokenAmount, usdcSpent, txSig, now),
      out |-> [kind |-> "void"] ]

openPosition(entryPrice, tokenAmount, usdcSpent, txSig, now) ==
    LET r == openResult(position, bars, entryPrice, tokenAmount, usdcSpent, txSig, now)
    IN  /\ position' = r.position
        /\ ret' = [op |-> "openPosition", arg |-> entryPrice, out |-> r.out]
        /\ UNCHANGED <<cfg, runtime, series, cooldownRemaining, ledger>>

----------------------------------------------------------------------------
(* Strategy.checkExit                                                      *)

\* checkExit that stores the current price as the watermark on every call
highWatermarkLast(pos, currentPrice) == currentPrice

\* checkExit: "Update high watermark"
highWatermark(pos, currentPrice) ==
    IF RGt(currentPrice, pos.highSinceEntry) THEN currentPrice ELSE pos.highSinceEntry

\* checkExit with the timeout rule tested before the stop loss
exitSignalTimeoutFirst(pos, n, currentPrice) ==
    LET barsHeld == n - 1 - pos.entryBar
        pnlPct   == RDiv(RSub(currentPrice, pos.entryPrice), pos.entryPrice)
        high     == highWatermark(pos, currentPrice)
        sig(reason) == [ kind |-> "exit", reason |-> reason,
                         pnlPct |-> pnlPct, barsHeld |-> barsHeld ]
    IN  IF RGt(TP2_PCT, R(0)) /\ RGe(pnlPct, TP2_PCT) THEN sig("tp2")
        ELSE IF RGe(pnlPct, TP1_PCT)
             THEN IF RGt(TRAIL_PCT, R(0))
                  THEN IF RGe(RDiv(RSub(high, currentPrice), high), TRAIL_PCT)
                       THEN sig("trail")
                       ELSE Null
                  ELSE sig("tp1")
        ELSE IF barsHeld >= MAX_BARS_IN_POS THEN sig("timeout")
        ELSE IF RLe(pnlPct, RNeg(SL_PCT)) THEN sig("sl")
        ELSE Null

\* checkExit that takes TP1 when the trail has not triggered
exitSignalTp1Immediate(pos, n, currentPrice) ==
    LET barsHeld == n - 1 - pos.entryBar
        pnlPct   == RDiv(RSub(currentPrice, pos.entryPrice), pos.entryPrice)
        high     == highWatermark(pos, currentPrice)
        sig(reason) == [ kind |-> "exit", reason |-> reason,
                         pnlPct |-> pnlPct, barsHeld |-> barsHeld ]
    IN  IF RGt(TP2_PCT, R(0)) /\ RGe(pnlPct, TP2_PCT) THEN sig("tp2")
        ELSE IF RGe(pnlPct, TP1_PCT)
             THEN IF RGt(TRAIL_PCT, R(0))
                  THEN IF RGe(RDiv(RSub(high, currentPrice), high), TRAIL_PCT)
                       THEN sig("trail")
                       ELSE sig("tp1")
                  ELSE sig("tp1")
        ELSE IF RLe(pnlPct, RNeg(SL_PCT)) THEN sig("sl")
        ELSE IF barsHeld >= MAX_BARS_IN_POS THEN sig("timeout")
        ELSE Null

\* checkExit with the stop loss written `pnlPct < -SL_PCT`
exitSignalStrictSl(pos, n, currentPrice) ==
    LET barsHeld == n - 1 - pos.entryBar
        pnlPct   == RDiv(RSub(currentPrice, pos.entryPrice), pos.entryPrice)
        high     == highWatermark(pos, currentPrice)
        sig(reason) == [ kind |-> "exit", reason |-> reason,
                         pnlPct |-> pnlPct, barsHeld |-> barsHeld ]
    IN  IF RGt(TP2_PCT, R(0)) /\ RGe(pnlPct, TP2_PCT) THEN sig("tp2")
        ELSE IF RGe(pnlPct, TP1_PCT)
             THEN IF RGt(TRAIL_PCT, R(0))
                  THEN IF RGe(RDiv(RSub(high, currentPrice), high), TRAIL_PCT)
                       THEN sig("trail")
                       ELSE Null
                  ELSE sig("tp1")
        ELSE IF RLt(pnlPct, RNeg(SL_PCT)) THEN sig("sl")
        ELSE IF barsHeld >= MAX_BARS_IN_POS THEN sig("timeout")
        ELSE Null

\* checkExit: the signal returned for an open position pos with n bars loaded
exitSignal(pos, n, currentPrice) ==
    LET barsHeld == n - 1 - pos.entryBar
        pnlPct   == RDiv(RSub(currentPrice, pos.entryPrice), pos.entryPrice)
        high     == highWatermark(pos, currentPrice)
        sig(reason) == [ kind |-> "exit", reason |-> reason,
                         pnlPct |-> pnlPct, barsHeld |-> barsHeld ]
    IN  IF RGt(TP2_PCT, R(0)) /\ RGe(pnlPct, TP2_PCT) THEN sig("tp2")
        ELSE IF RGe(pnlPct, TP1_PCT)
             THEN IF RGt(TRAIL_PCT, R(0))
                  THEN IF RGe(RDiv(RSub(high, currentPrice), high), TRAIL_PCT)
                       THEN sig("trail")
                       ELSE Null
                  ELSE sig("tp1")
        ELSE IF RLe(pnlPct, RNeg(SL_PCT)) THEN sig("sl")
        ELSE IF barsHeld >= MAX_BARS_IN_POS THEN sig("timeout")
        ELSE Null

\* checkExit that also clears the position when it returns a signal
checkExitClosing(currentPrice) ==
    /\ IF position = Null
       THEN /\ ret' = [op |-> "checkExit", arg |-> currentPrice, out |-> Null]
            /\ UNCHANGED position
       ELSE LET out == exitSignal(position, Len(bars), currentPrice)
            IN  /\ position' = IF out # Null THEN Null
                               ELSE [position EXCEPT
                                       !.highSinceEntry = highWatermark(position, currentPrice)]
                /\ ret' = [op |-> "checkExit", arg |-> currentPrice, out |-> out]
    /\ UNCHANGED <<cfg, runtime, series, cooldownRemaining, ledger>>

checkExit(currentPrice) ==
    /\ IF position = Null
       THEN /\ ret' = [op |-> "checkExit", arg |-> currentPrice, out |-> Null]
            /\ UNCHANGED position
       ELSE /\ position' = [position EXCEPT
                              !.highSinceEntry = highWatermark(position, currentPrice)]
            /\ ret' = [ op |-> "checkExit", arg |-> currentPrice,
                        out |-> exitSignal(position, Len(bars), currentPrice) ]
    /\ UNCHANGED <<cfg, runtime, series, cooldownRemaining, ledger>>

----------------------------------------------------------------------------
(* Strategy.closePosition                                                  *)

\* closePosition: const feePct = 0.0004
feePct == Frac(4, 10000)

\* closePosition counting a win on the gross return, before the fee
closeResultGrossWins(pos, exitPrice) ==
    LET pnlPct == RDiv(RSub(exitPrice, pos.entryPrice), pos.entryPrice)
        pnlNet == RSub(pnlPct, feePct)
        eq     == RMul(equity, RAdd(R(1), pnlNet))
        peak   == IF RGt(eq, peakEquity) THEN eq ELSE peakEquity
        dd     == RDiv(RSub(peak, eq), peak)
    IN  [ equity |-> eq,
          peakEquity |-> peak,
          maxDrawdown |-> IF RGt(dd, maxDrawdown) THEN dd ELSE maxDrawdown,
          totalTrades |-> totalTrades + 1,
          totalWins |-> IF RGt(pnlPct, R(0)) THEN totalWins + 1 ELSE totalWins,
          totalPnlPct |-> RAdd(totalPnlPct, pnlNet),
          out |-> [kind |-> "closed", pnlPct |-> pnlPct, pnlNet |-> pnlNet] ]

\* closePosition whose peak follows the equity down
closeResultPeakFollows(pos, exitPrice) ==
    LET pnlPct == RDiv(RSub(exitPrice, pos.entryPrice), pos.entryPrice)
        pnlNet == RSub(pnlPct, feePct)
        eq     == RMul(equity, RAdd(R(1), pnlNet))
        peak   == eq
        dd     == RDiv(RSub(peak, eq), peak)
    IN  [ equity |-> eq,
          peakEquity |-> peak,
          maxDrawdown |-> IF RGt(dd, maxDrawdown) THEN dd ELSE maxDrawdown,
          totalTrades |-> totalTrades + 1,
          totalWins |-> IF RGt(pnlNet, R(0)) THEN totalWins + 1 ELSE totalWins,
          totalPnlPct |-> RAdd(totalPnlPct, pnlNet),
          out |-> [kind |-> "closed", pnlPct |-> pnlPct, pnlNet |-> pnlNet] ]

\* closePosition: the ledger, the cooldown and the returned value after
\* closing pos at exitPrice
closeResult(pos, exitPrice) ==
    LET pnlPct == RDiv(RSub(exitPrice, pos.entryPrice), pos.entryPrice)
        pnlNet == RSub(pnlPct, feePct)
        eq     == RMul(equity, RAdd(R(1), pnlNet))
        peak   == IF RGt(eq, peakEquity) THEN eq ELSE peakEquity
        dd     == RDiv(RSub(peak, eq), peak)
    IN  [ equity |-> eq,
          peakEquity |-> peak,
          maxDrawdown |-> IF RGt(dd, maxDrawdown) THEN dd ELSE maxDrawdown,
          totalTrades |-> totalTrades + 1,
          totalWins |-> IF RGt(pnlNet, R(0)) THEN totalWins + 1 ELSE totalWins,
          totalPnlPct |-> RAdd(totalPnlPct, pnlNet),
          out |-> [kind |-> "closed", pnlPct |-> pnlPct, pnlNet |-> pnlNet] ]

\* closePosition: the guard that throws "No position to close"
closeThrows(pos) == pos = Null

\* closePosition that starts the cooldown before the guard
closePositionCooldownFirst(exitPrice, reason) ==
    IF closeThrows(position)
    THEN /\ ret' = [ op |-> "closePosition", arg |-> exitPrice,
                     out |-> [kind |-> "throw", message |-> "No position to close"] ]
         /\ cooldownRemaining' = COOLDOWN_BARS
         /\ UNCHANGED <<cfg, runtime, series, position, ledger>>
    ELSE LET r == closeResult(position, exitPrice)
         IN  /\ equity' = r.equity
             /\ peakEquity' = r.peakEquity
             /\ maxDrawdown' = r.maxDrawdown
             /\ totalTrades' = r.totalTrades
             /\ totalWins' = r.totalWins
             /\ totalPnlPct' = r.totalPnlPct
             /\ position' = Null
             /\ cooldownRemaining' = COOLDOWN_BARS
             /\ ret' = [op |-> "closePosition", arg |-> exitPrice, out |-> r.out]
             /\ UNCHANGED <<cfg, runtime, series>>

closePosition(exitPrice, reason) ==
    IF closeThrows(position)
    THEN /\ ret' = [ op |-> "closePosition", arg |-> exitPrice,
                     out |-> [kind |-> "throw", message |-> "No position to close"] ]
         /\ UNCHANGED <<cfg, runtime, series, cooldownRemaining, position, ledger>>
    ELSE LET r == closeResult(position, exitPrice)
         IN  /\ equity' = r.equity
             /\ peakEquity' = r.peakEquity
             /\ maxDrawdown' = r.maxDrawdown
             /\ totalTrades' = r.totalTrades
             /\ totalWins' = r.totalWins
             /\ totalPnlPct' = r.totalPnlPct
             /\ position' = Null
             /\ cooldownRemaining' = COOLDOWN_BARS
             /\ ret' = [op |-> "closePosition", arg |-> exitPrice, out |-> r.out]
             /\ UNCHANGED <<cfg, runtime, series>>

----------------------------------------------------------------------------
(* Strategy.getState                                                       *)

RECURSIVE Pow10(_)
Pow10(f) == IF f = 0 THEN 1 ELSE 10 * Pow10(f - 1)

\* Number.prototype.toFixed(f): the integer n such that n / 10^f is nearest
\* to x, the larger n on a tie; the string returned spells n / 10^f
toFixed(x, f) ==
    LET y == RAdd(RMul(x, R(Pow10(f))), Frac(1, 2))
    IN  y[1] \div y[2]

getStateResult ==
    LET ind == getIndicators
        n   == Len(bars)
    IN  [ kind |-> "state",
          barsLoaded |-> n,
          warmupComplete |-> ind.ready,
          indicators |->
              IF ind.ready
              THEN [ kind |-> "indicators",
                     emaFast |-> toFixed(ind.emaFast, 4),
                     emaSlow |-> toFixed(ind.emaSlow, 4),
                     atr |-> toFixed(ind.atr, 4),
                     slope |-> toFixed(ind.slope, 4),
                     slopeAboveThreshold |-> RGe(ind.slope, MIN_EMA_SLOPE),
                     buyZoneTop |-> toFixed(ind.buyZoneTop, 4) ]
              ELSE Null,
          position |->
              IF position # Null
              THEN [ kind |-> "position",
                     entryPrice |-> position.entryPrice,
                     entryTime |-> position.entryTime,
                     barsHeld |-> n - 1 - position.entryBar,
                     highSinceEntry |-> position.highSinceEntry,
                     currentPnl |->
                         IF n > 0
                         THEN toFixed(RMul(RDiv(RSub(bars[n].c, position.entryPrice),
                                                position.entryPrice), R(100)), 2)
                         ELSE "n/a" ]
              ELSE Null,
          cooldownRemaining |-> cooldownRemaining,
          stats |-> [ totalTrades |-> totalTrades,
                      wins |-> totalWins,
                      winRate |-> IF totalTrades > 0
                                  THEN toFixed(RMul(Frac(totalWins, totalTrades), R(100)), 1)
                                  ELSE "n/a",
                      totalPnlPct |-> toFixed(RMul(totalPnlPct, R(100)), 2),
                      equity |-> toFixed(equity, 4),
                      maxDrawdown |-> toFixed(RMul(maxDrawdown, R(100)), 2) ] ]

\* getState that also ticks the cooldown
getStateTicking ==
    /\ ret' = [op |-> "getState", arg |-> Null, out |-> getStateResult]
    /\ cooldownRemaining' = tickCooldown(cooldownRemaining)
    /\ UNCHANGED <<cfg, runtime, series, position, ledger>>

getState ==
    /\ ret' = [op |-> "getState", arg |-> Null, out |-> getStateResult]
    /\ UNCHANGED <<cfg, runtime, series, cooldownRemaining, position, ledger>>

----------------------------------------------------------------------------
(* The engine driven through its public methods                            *)

\* token-config.ts: BAR_MS, the bar duration in milliseconds
BAR_MS == 3600000

\* bounds of the model
MaxBars == 9

MaxExitBars == 4

MaxTrades == 1

\* the timestamp (seconds) of the next bar: callers feed bars in time order
NextT == (Len(bars) + 1) * (BAR_MS \div 1000)

\* Date.now() / 1000 as read by openPosition when no bar is loaded
NowSecs == {1800}

\* shadow sizing of executeBuy: 30 USDC of a 100 USDC balance
ShadowUsdc == R(30)

\* estTokens rounded down to whole tokens
ShadowTokensWhole(price) ==
    LET q == RDiv(ShadowUsdc, price) IN R(q[1] \div q[2])

ShadowTokens(price) == RDiv(ShadowUsdc, price)

\* new Strategy()
EmptySeries == [bars |-> <<>>, emaFastArr |-> <<>>, emaSlowArr |-> <<>>, atrArr |-> <<>>]

\* runtime.ts init(): for (const bar of savedBars) strategy.addBar(bar);
\* P is the series once the bars before the last one are pushed
RECURSIVE restoreBars(_, _)
restoreBars(S, saved) ==
    IF saved = <<>> THEN S
    ELSE CHOOSE T \in {pushBar(P, saved[Len(saved)]) :
                          P \in {restoreBars(S, SubSeq(saved, 1, Len(saved) - 1))}} : TRUE

\* the engine after init() has restored savedBars, no state file present
InitEngine(savedBars) ==
    LET S == restoreBars(EmptySeries, savedBars)
    IN  /\ bars = S.bars
        /\ emaFastArr = S.emaFastArr
        /\ emaSlowArr = S.emaSlowArr
        /\ atrArr = S.atrArr
        /\ cooldownRemaining = 0
        /\ position = Null
        /\ totalTrades = 0
        /\ totalWins = 0
        /\ totalPnlPct = R(0)
        /\ peakEquity = R(1)
        /\ equity = R(1)
        /\ maxDrawdown = R(0)
        /\ ret = [op |-> "new", arg |-> Null, out |-> [kind |-> "void"]]

\* the calls a client of the Strategy class can make; closes, checks, opens
\* and exits are the prices it passes
AddBarCall(closes, maxBars) ==
    \E c \in closes :
        /\ Len(bars) < maxBars
        /\ addBar(FlatBar(NextT, c))

CheckEntryCall(checks) == \E p \in checks : checkEntry(p)

OpenPositionCall(opens) ==
    \E p \in opens, now \in NowSecs :
        openPosition(p, ShadowTokens(p), ShadowUsdc, "shadow", now)

CheckExitCall(checks) == \E p \in checks : checkExit(p)

ClosePositionCall(exits) ==
    \E p \in exits :
        /\ position = Null \/ totalTrades < MaxTrades
        /\ closePosition(p, "timeout")

----------------------------------------------------------------------------
(* runtime.ts and state-manager.ts                                         *)

MaxTasks == 1

\* -Infinity and Infinity, the initial currentBarHigh and currentBarLow
NegInfinity == <<-1, 0>>

PosInfinity == <<1, 0>>

\* a file that does not exist, and a file holding JSON.stringify(v)
NoFile == [kind |-> "absent"]

JsonFile(v) == [kind |-> "json", value |-> v]

\* a task slot with no mainLoop call in flight
Idle == [pc |-> "idle"]

\* the module-level state of runtime.ts at time startMs on a disk holding
\* the given files, with room for n asynchronous calls in flight
InitModule(pc, startMs, barsF, stateF, tradesF, n) ==
    /\ currentBarStart = 0
    /\ currentBarOpen = R(0)
    /\ currentBarHigh = NegInfinity
    /\ currentBarLow = PosInfinity
    /\ currentBarClose = R(0)
    /\ lastPrice = R(0)
    /\ mainPc = pc
    /\ tasks = [t \in 1..n |-> Idle]
    /\ clock = startMs
    /\ barsFile = barsF
    /\ stateFile = stateF
    /\ stateTmp = NoFile
    /\ tradesFile = tradesF
    /\ observed = <<>>

InitGlobals(pc, startMs, barsF, stateF, tradesF) ==
    InitModule(pc, startMs, barsF, stateF, tradesF, MaxTasks)

\* SWAPS_ARMED without the test of the cluster
SWAPS_ARMED_AnyCluster == cfg.ENABLE_SWAPS /\ cfg.ALLOW_MAINNET_SWAPS

\* token-config.ts: SWAPS_ARMED
SWAPS_ARMED ==
    cfg.ENABLE_SWAPS /\ cfg.ALLOW_MAINNET_SWAPS /\ cfg.SOLANA_CLUSTER = "mainnet-beta"

\* state-manager.ts loadBars and loadState: a missing file reads as [] / null
loadBars(file) == IF file.kind = "json" THEN file.value ELSE <<>>

loadState(file) == IF file.kind = "json" THEN file.value ELSE Null

\* state-manager.ts saveBars: bars.slice(-maxBars) with maxBars = 500
SAVE_MAX_BARS == 500

saveBars(bs) ==
    JsonFile(IF Len(bs) <= SAVE_MAX_BARS THEN bs
             ELSE SubSeq(bs, Len(bs) - SAVE_MAX_BARS + 1, Len(bs)))

\* state-manager.ts saveState
saveState(state) == JsonFile(state)

\* a file with the records v in it whose text JSON.parse rejects, such as a
\* log cut short or edited by hand
DamagedFile(v) == [kind |-> "damaged", value |-> v]

\* state-manager.ts loadTrades: [] when the log is missing or unreadable
loadTrades(file) == IF file.kind = "json" THEN file.value ELSE <<>>

\* state-manager.ts appendTrade: an unreadable log starts fresh
appendTrade(file, trade) ==
    JsonFile(Append(IF file.kind = "json" THEN file.value ELSE <<>>, trade))

\* the ledger fields of the Strategy object as a record
LedgerRec ==
    [ totalTrades |-> totalTrades, totalWins |-> totalWins,
      totalPnlPct |-> totalPnlPct, peakEquity |-> peakEquity,
      equity |-> equity, maxDrawdown |-> maxDrawdown ]

\* persistState: the object handed to saveState
persisted(pos, cooldown, L, now) ==
    [ position |-> pos,
      cooldownRemaining |-> cooldown,
      totalTrades |-> L.totalTrades,
      totalWins |-> L.totalWins,
      totalPnlPct |-> L.totalPnlPct,
      equity |-> L.equity,
      peakEquity |-> L.peakEquity,
      maxDrawdown |-> L.maxDrawdown,
      lastSaveTime |-> now ]

\* executeSell: the record handed to appendTrade; r is the result of
\* closePosition and n the bar count
tradeRecord(pos, exitPrice, reason, r, n, now) ==
    [ entryTime |-> pos.entryTime * 1000,
      exitTime |-> now,
      entryPrice |-> pos.entryPrice,
      exitPrice |-> exitPrice,
      reason |-> reason,
      pnlPct |-> r.out.pnlPct,
      pnlNet |-> r.out.pnlNet,
      barsHeld |-> n - 1 - pos.entryBar,
      equityAfter |-> r.equity ]

\* addBar called k times: the cooldown ticks
RECURSIVE tickN(_, _)
tickN(c, k) == IF k = 0 THEN c ELSE tickN(tickCooldown(c), k - 1)

\* init(): the history bars whose timestamp is not among the existing ones
RECURSIVE notIn(_, _)
notIn(history, existingTimes) ==
    IF history = <<>> THEN <<>>
    ELSE IF Head(history).t \in existingTimes
         THEN notIn(Tail(history), existingTimes)
         ELSE <<Head(history)>> \o notIn(Tail(history), existingTimes)

\* init(): backfill is attempted when fewer than 60 bars are loaded
BACKFILL_BELOW == 60

\* init(): restore the saved bars, restore the saved state, merge the
\* history the CoinGecko fetch returned (or nothing when it threw)
init(histories) ==
    /\ mainPc = "init"
    /\ \E h \in histories, st \in {loadState(stateFile)},
          S1 \in {restoreBars(Series, loadBars(barsFile))} :
          \E fill \in {IF Len(S1.bars) < BACKFILL_BELOW /\ h.kind = "history"
                       THEN notIn(h.bars, {S1.bars[i].t : i \in 1..Len(S1.bars)})
                       ELSE <<>>} :
             \E S2 \in {restoreBars(S1, fill)} :
                /\ bars' = S2.bars
                /\ emaFastArr' = S2.emaFastArr
                /\ emaSlowArr' = S2.emaSlowArr
                /\ atrArr' = S2.atrArr
                /\ cooldownRemaining' =
                      tickN(IF st # Null THEN st.cooldownRemaining
                            ELSE tickN(cooldownRemaining, Len(S1.bars)),
                            Len(fill))
                /\ position' = IF st # Null THEN st.position ELSE position
                /\ totalTrades' = IF st # Null THEN st.totalTrades ELSE totalTrades
                /\ totalWins' = IF st # Null THEN st.totalWins ELSE totalWins
                /\ totalPnlPct' = IF st # Null THEN st.totalPnlPct ELSE totalPnlPct
                /\ equity' = IF st # Null THEN st.equity ELSE equity
                /\ peakEquity' = IF st # Null THEN st.peakEquity ELSE peakEquity
                /\ maxDrawdown' = IF st # Null THEN st.maxDrawdown ELSE maxDrawdown
                /\ ret' = [ op |-> "init", arg |-> h,
                            out |-> [kind |-> "void", restored |-> Len(S1.bars),
                                     added |-> Len(fill)] ]
    /\ mainPc' = "running"
    /\ UNCHANGED <<cfg, aggregator, lastPrice, tasks, clock, disk, observed>>

\* processPrice, the price falls in the open bucket
sameBucket(price) ==
    [ newBar |-> FALSE,
      emitted |-> Null,
      S |-> Series,
      cooldownRemaining |-> cooldownRemaining,
      barsFile |-> barsFile,
      currentBarStart |-> currentBarStart,
      currentBarOpen |-> currentBarOpen,
      currentBarHigh |-> IF RGt(price, currentBarHigh) THEN price ELSE currentBarHigh,
      currentBarLow |-> IF RLt(price, currentBarLow) THEN price ELSE currentBarLow,
      currentBarClose |-> price ]

\* processPrice opening the new bucket at the previous close
newBucketOpensAtClose(emit, bar, S, barStart, price) ==
    [ newBar |-> emit,
      emitted |-> IF emit THEN bar ELSE Null,
      S |-> S,
      cooldownRemaining |-> IF emit THEN tickCooldown(cooldownRemaining)
                            ELSE cooldownRemaining,
      barsFile |-> IF emit /\ Len(S.bars) % 10 = 0 THEN saveBars(S.bars) ELSE barsFile,
      currentBarStart |-> barStart,
      currentBarOpen |-> IF emit THEN currentBarClose ELSE price,
      currentBarHigh |-> price,
      currentBarLow |-> price,
      currentBarClose |-> price ]

\* processPrice, the price opens a new bucket: emit tells whether the open
\* bucket was closed into bar, and S is the series after strategy.addBar(bar)
newBucket(emit, bar, S, barStart, price) ==
    [ newBar |-> emit,
      emitted |-> IF emit THEN bar ELSE Null,
      S |-> S,
      cooldownRemaining |-> IF emit THEN tickCooldown(cooldownRemaining)
                            ELSE cooldownRemaining,
      barsFile |-> IF emit /\ Len(S.bars) % 10 = 0 THEN saveBars(S.bars) ELSE barsFile,
      currentBarStart |-> barStart,
      currentBarOpen |-> price,
      currentBarHigh |-> price,
      currentBarLow |-> price,
      currentBarClose |-> price ]

\* processPrice: the bar built from the open bucket
currentBar ==
    Bar(currentBarStart \div 1000, currentBarOpen, currentBarHigh, currentBarLow,
        currentBarClose)

\* processPrice emitting only when the new bucket follows the open one
processPriceDropsAfterGap(price, now) ==
    LET barStart == (now \div BAR_MS) * BAR_MS
        emit     == /\ currentBarStart > 0 /\ RGt(currentBarClose, R(0))
                    /\ barStart = currentBarStart + BAR_MS
    IN  IF barStart = currentBarStart THEN sameBucket(price)
        ELSE newBucket(emit, currentBar,
                       IF emit THEN pushBar(Series, currentBar) ELSE Series,
                       barStart, price)

\* processPrice(price, now): the aggregator, the engine series, the cooldown
\* and the bars file after the call, and the bar it emitted
processPrice(price, now) ==
    LET barStart == (now \div BAR_MS) * BAR_MS
        emit     == currentBarStart > 0 /\ RGt(currentBarClose, R(0))
    IN  IF barStart = currentBarStart THEN sameBucket(price)
        ELSE newBucket(emit, currentBar,
                       IF emit THEN pushBar(Series, currentBar) ELSE Series,
                       barStart, price)

\* mainLoop: what a tick leaves when it neither trades nor starts a trade
tickBase(pp) ==
    [ pp |-> pp,
      position |-> position,
      cooldownRemaining |-> pp.cooldownRemaining,
      led |-> LedgerRec,
      barsFile |-> pp.barsFile,
      stateFile |-> stateFile,
      stateTmp |-> stateTmp,
      tradesFile |-> tradesFile,
      task |-> Idle,
      exit |-> Null,
      entry |-> Null,
      closed |-> Null ]

\* executeSell, shadow branch: closePosition(lastPrice, reason), appendTrade
\* and persistState; r is the result of the close
shadowSell(base, held, sig, r, price, now) ==
    [base EXCEPT
       !.position = Null,
       !.cooldownRemaining = COOLDOWN_BARS,
       !.led = [f \in DOMAIN LedgerRec |-> r[f]],
       !.tradesFile = appendTrade(tradesFile,
                          tradeRecord(held, price, sig.reason, r,
                                      Len(base.pp.S.bars), now)),
       !.stateFile = saveState(persisted(Null, COOLDOWN_BARS, r, now)),
       !.stateTmp = NoFile,
       !.barsFile = saveBars(base.pp.S.bars),
       !.exit = sig,
       !.closed = r.out]

\* mainLoop with a position open: checkExit(price), and executeSell(reason)
\* up to its first await when it signals
exitBranch(base, held, sig, price, now) ==
    IF sig = Null THEN [base EXCEPT !.position = held]
    ELSE IF ~SWAPS_ARMED \/ held.txSignature = "shadow"
    THEN shadowSell(base, held, sig, closeResult(held, price), price, now)
    ELSE [base EXCEPT
            !.position = held,
            !.exit = sig,
            !.task = [pc |-> "sellBalance", reason |-> sig.reason, pos |-> held]]

\* executeBuy, shadow branch: openPosition and persistState
shadowBuy(base, pos, entry, now) ==
    [base EXCEPT
       !.position = pos,
       !.stateFile = saveState(persisted(pos, base.cooldownRemaining, LedgerRec, now)),
       !.stateTmp = NoFile,
       !.barsFile = saveBars(base.pp.S.bars),
       !.entry = entry]

\* mainLoop on a new bar with no position: getIndicators, checkEntry(price),
\* and executeBuy(price) up to its first await when it signals
entryBranch(base, ind, entry, price, now) ==
    IF ~ind.ready \/ entry = Null THEN base
    ELSE IF ~SWAPS_ARMED
    THEN shadowBuy(base,
                   newPosition(base.pp.S.bars, price, ShadowTokens(price), ShadowUsdc,
                               "shadow", now \div 1000),
                   entry, now)
    ELSE [base EXCEPT !.entry = entry, !.task = [pc |-> "buyBalance"]]

\* mainLoop checking the entry on every tick, new bar or not
afterProcessEntryEveryTick(pp, price, now) ==
    IF position # Null
    THEN exitBranch(tickBase(pp),
                    [position EXCEPT !.highSinceEntry = highWatermark(position, price)],
                    exitSignal(position, Len(pp.S.bars), price), price, now)
    ELSE entryBranch(tickBase(pp),
                     indicatorsOf(pp.S.bars, pp.S.emaFastArr, pp.S.emaSlowArr,
                                  pp.S.atrArr),
                     entrySignal(indicatorsOf(pp.S.bars, pp.S.emaFastArr,
                                              pp.S.emaSlowArr, pp.S.atrArr),
                                 Null, pp.cooldownRemaining, price),
                     price, now)

\* mainLoop after processPrice returned pp
afterProcess(pp, price, now) ==
    IF position # Null
    THEN exitBranch(tickBase(pp),
                    [position EXCEPT !.highSinceEntry = highWatermark(position, price)],
                    exitSignal(position, Len(pp.S.bars), price), price, now)
    ELSE IF ~pp.newBar THEN tickBase(pp)
    ELSE entryBranch(tickBase(pp),
                     indicatorsOf(pp.S.bars, pp.S.emaFastArr, pp.S.emaSlowArr,
                                  pp.S.atrArr),
                     entrySignal(indicatorsOf(pp.S.bars, pp.S.emaFastArr,
                                              pp.S.emaSlowArr, pp.S.atrArr),
                                 Null, pp.cooldownRemaining, price),
                     price, now)

\* mainLoop after pollPrice returned price: processPrice, then the exit
\* check when a position is open, else the entry check on a new bar; the
\* shadow executeSell and executeBuy run to completion, the armed ones stop
\* at their first await
mainLoopResult(price) == afterProcess(processPrice(price, clock), price, clock)

\* setInterval(mainLoop, SAMPLE_INTERVAL_MS): a new mainLoop call starts and
\* awaits pollPrice
timer ==
    /\ mainPc = "running"
    /\ \E t \in DOMAIN tasks :
          /\ tasks[t].pc = "idle"
          /\ \A u \in 1..(t - 1) : tasks[u].pc # "idle"
          /\ tasks' = [tasks EXCEPT ![t] = [pc |-> "poll"]]
    /\ ret' = [op |-> "timer", arg |-> Null, out |-> [kind |-> "void"]]
    /\ UNCHANGED <<cfg, series, cooldownRemaining, position, ledger, aggregator,
                   lastPrice, mainPc, clock, disk, observed>>

\* pollPrice threw: mainLoop returns at "if (price === null) return"
pollFails ==
    \E t \in DOMAIN tasks :
        /\ tasks[t].pc = "poll"
        /\ tasks' = [tasks EXCEPT ![t] = Idle]
        /\ ret' = [op |-> "mainLoop", arg |-> Null, out |-> [kind |-> "noPrice"]]
        /\ UNCHANGED <<cfg, series, cooldownRemaining, position, ledger, aggregator,
                       lastPrice, mainPc, clock, disk, observed>>

\* pollPrice returned a price: the rest of mainLoop up to its next await
mainLoop(prices, maxObserved) ==
    \E t \in DOMAIN tasks, price \in prices :
        /\ tasks[t].pc = "poll"
        /\ (clock \div BAR_MS) * BAR_MS = currentBarStart => Len(observed) < maxObserved
        /\ \E r \in {mainLoopResult(price)} :
               /\ bars' = r.pp.S.bars
               /\ emaFastArr' = r.pp.S.emaFastArr
               /\ emaSlowArr' = r.pp.S.emaSlowArr
               /\ atrArr' = r.pp.S.atrArr
               /\ cooldownRemaining' = r.cooldownRemaining
               /\ position' = r.position
               /\ totalTrades' = r.led.totalTrades
               /\ totalWins' = r.led.totalWins
               /\ totalPnlPct' = r.led.totalPnlPct
               /\ peakEquity' = r.led.peakEquity
               /\ equity' = r.led.equity
               /\ maxDrawdown' = r.led.maxDrawdown
               /\ currentBarStart' = r.pp.currentBarStart
               /\ currentBarOpen' = r.pp.currentBarOpen
               /\ currentBarHigh' = r.pp.currentBarHigh
               /\ currentBarLow' = r.pp.currentBarLow
               /\ currentBarClose' = r.pp.currentBarClose
               /\ lastPrice' = price
               /\ barsFile' = r.barsFile
               /\ stateFile' = r.stateFile
               /\ stateTmp' = r.stateTmp
               /\ tradesFile' = r.tradesFile
               /\ observed' = IF r.pp.currentBarStart = currentBarStart
                              THEN Append(observed, [price |-> price, at |-> clock])
                              ELSE <<[price |-> price, at |-> clock]>>
               /\ tasks' = [tasks EXCEPT ![t] = r.task]
               /\ ret' = [ op |-> "mainLoop", arg |-> price,
                           out |-> [ kind |-> "tick", now |-> clock,
                                     isNewBar |-> r.pp.newBar,
                                     bar |-> r.pp.emitted,
                                     exit |-> r.exit, entry |-> r.entry,
                                     closed |-> r.closed ] ]
        /\ UNCHANGED <<cfg, mainPc, clock>>

\* what an awaited fetch can do: throw, or return one of the values
Outcomes(values) ==
    {[kind |-> "throws"]} \cup {[kind |-> "value", value |-> v] : v \in values}

\* the frame of a step that only moves a task
taskOnly ==
    UNCHANGED <<cfg, series, cooldownRemaining, position, ledger, aggregator,
                lastPrice, mainPc, clock, disk, observed>>

\* an await of executeBuy or executeSell that either throws, which ends the
\* call in its catch block, or lets the call proceed to its next await
ioStep(op, step, pcFrom, pcTo) ==
    \E t \in DOMAIN tasks, ok \in BOOLEAN :
        /\ tasks[t].pc = pcFrom
        /\ tasks' = [tasks EXCEPT ![t] = IF ok THEN [@ EXCEPT !.pc = pcTo] ELSE Idle]
        /\ ret' = [ op |-> op, arg |-> step,
                    out |-> [kind |-> IF ok THEN "ok" ELSE "failed", threw |-> FALSE] ]
        /\ taskOnly

\* strategy.closePosition(exitPrice, reason) followed by persistState(), with
\* appendTrade(...) in between when trade is a record
closeAndPersist(exitPrice, trade) ==
    \E r \in {closeResult(position, exitPrice)} :
        /\ equity' = r.equity
        /\ peakEquity' = r.peakEquity
        /\ maxDrawdown' = r.maxDrawdown
        /\ totalTrades' = r.totalTrades
        /\ totalWins' = r.totalWins
        /\ totalPnlPct' = r.totalPnlPct
        /\ position' = Null
        /\ cooldownRemaining' = COOLDOWN_BARS
        /\ tradesFile' = IF trade = Null THEN tradesFile
                         ELSE appendTrade(tradesFile, trade @@ [
                                 pnlPct |-> r.out.pnlPct, pnlNet |-> r.out.pnlNet,
                                 equityAfter |-> r.equity ])
        /\ stateFile' = saveState(persisted(Null, COOLDOWN_BARS, r, clock))
        /\ stateTmp' = NoFile
        /\ barsFile' = saveBars(bars)

\* executeSell, armed: await getTokenBalance().  The fetch returns 0 when it
\* throws; a balance below 0.001 closes the position at lastPrice without a
\* trade record
sellBalance ==
    \E t \in DOMAIN tasks, b \in {"error", "empty", "funded"} :
        /\ tasks[t].pc = "sellBalance"
        /\ IF b = "funded"
           THEN /\ tasks' = [tasks EXCEPT ![t] = [@ EXCEPT !.pc = "sellQuote"]]
                /\ ret' = [ op |-> "executeSell", arg |-> "balance",
                            out |-> [kind |-> "ok", threw |-> FALSE] ]
                /\ taskOnly
           ELSE /\ tasks' = [tasks EXCEPT ![t] = Idle]
                /\ ret' = [ op |-> "executeSell", arg |-> "balance",
                            out |-> [ kind |-> IF b = "error" THEN "failed" ELSE "empty",
                                      threw |-> closeThrows(position) ] ]
                /\ IF closeThrows(position)
                   THEN UNCHANGED <<cooldownRemaining, position, ledger, disk>>
                   ELSE closeAndPersist(lastPrice, Null)
                /\ UNCHANGED <<cfg, series, aggregator, lastPrice, mainPc, clock, observed>>

\* executeSell, armed: await getSellQuote(tokenBalance)
sellQuote(quotes) ==
    \E t \in DOMAIN tasks, q \in Outcomes(quotes) :
        /\ tasks[t].pc = "sellQuote"
        /\ tasks' = [tasks EXCEPT ![t] =
                       IF q.kind = "throws" THEN Idle
                       ELSE [ pc |-> "sellSwap", reason |-> tasks[t].reason,
                              pos |-> tasks[t].pos, quote |-> q.value ]]
        /\ ret' = [ op |-> "executeSell", arg |-> "quote",
                    out |-> [ kind |-> IF q.kind = "throws" THEN "failed" ELSE "ok",
                              threw |-> FALSE ] ]
        /\ taskOnly

\* executeSell, armed: await getSwapTransaction(...)
sellSwap == ioStep("executeSell", "swap", "sellSwap", "sellSend")

\* executeSell, armed: await connection.sendRawTransaction(...)
sellSend == ioStep("executeSell", "send", "sellSend", "sellConfirm")

\* executeSell, armed: await connection.confirmTransaction(sig), then the
\* close at the quoted price, the trade record and persistState
sellConfirm ==
    \E t \in DOMAIN tasks, c \in {"throws", "err", "confirmed"} :
        /\ tasks[t].pc = "sellConfirm"
        /\ tasks' = [tasks EXCEPT ![t] = Idle]
        /\ ret' = [ op |-> "executeSell", arg |-> "confirm",
                    out |-> [ kind |-> IF c = "confirmed" THEN "ok" ELSE "failed",
                              threw |-> c = "confirmed" /\ closeThrows(position) ] ]
        /\ IF c # "confirmed" \/ closeThrows(position)
           THEN UNCHANGED <<cooldownRemaining, position, ledger, disk>>
           ELSE closeAndPersist(tasks[t].quote,
                    [ entryTime |-> tasks[t].pos.entryTime * 1000,
                      exitTime |-> clock,
                      entryPrice |-> tasks[t].pos.entryPrice,
                      exitPrice |-> tasks[t].quote,
                      reason |-> tasks[t].reason,
                      barsHeld |-> Len(bars) - 1 - tasks[t].pos.entryBar ])
        /\ UNCHANGED <<cfg, series, aggregator, lastPrice, mainPc, clock, observed>>

\* token-config.ts: TRADE_PCT_USDC
TRADE_PCT_USDC == Frac(30, 100)

\* executeBuy, armed: await getUsdcBalance(), 0 when the fetch throws; a
\* position size below 1 USDC ends the buy
buyBalance(balances) ==
    \E t \in DOMAIN tasks, b \in Outcomes(balances) :
        LET usdc == IF b.kind = "throws" THEN R(0) ELSE b.value
            size == RMul(usdc, TRADE_PCT_USDC)
        IN  /\ tasks[t].pc = "buyBalance"
            /\ tasks' = [tasks EXCEPT ![t] =
                           IF RLt(size, R(1)) THEN Idle
                           ELSE [pc |-> "buyQuote", size |-> size]]
            /\ ret' = [ op |-> "executeBuy", arg |-> "balance",
                        out |-> [kind |-> IF b.kind = "throws" THEN "failed"
                                          ELSE IF RLt(size, R(1)) THEN "insufficient"
                                          ELSE "ok"] ]
            /\ taskOnly

\* executeBuy, armed: await getBuyQuote(positionSize); a price impact above
\* 1% ends the buy
buyQuote(quotes, impacts) ==
    \E t \in DOMAIN tasks, q \in Outcomes(quotes), impact \in impacts :
        /\ tasks[t].pc = "buyQuote"
        /\ tasks' = [tasks EXCEPT ![t] =
                       IF q.kind = "throws" \/ RGt(impact, R(1)) THEN Idle
                       ELSE [ pc |-> "buySwap", size |-> tasks[t].size,
                              quote |-> q.value,
                              tokens |-> RDiv(tasks[t].size, q.value) ]]
        /\ ret' = [ op |-> "executeBuy", arg |-> "quote",
                    out |-> [kind |-> IF q.kind = "throws" THEN "failed"
                                      ELSE IF RGt(impact, R(1)) THEN "impact"
                                      ELSE "ok"] ]
        /\ taskOnly

\* executeBuy, armed: await getSwapTransaction(...)
buySwap == ioStep("executeBuy", "swap", "buySwap", "buySend")

\* executeBuy, armed: await connection.sendRawTransaction(...)
buySend == ioStep("executeBuy", "send", "buySend", "buyConfirm")

\* executeBuy, armed: await connection.confirmTransaction(sig), then
\* openPosition at the quoted price and persistState
buyConfirm ==
    \E t \in DOMAIN tasks, c \in {"throws", "err", "confirmed"} :
        /\ tasks[t].pc = "buyConfirm"
        /\ tasks' = [tasks EXCEPT ![t] = Idle]
        /\ ret' = [ op |-> "executeBuy", arg |-> "confirm",
                    out |-> [kind |-> IF c = "confirmed" THEN "ok" ELSE "failed"] ]
        /\ IF c # "confirmed"
           THEN UNCHANGED <<position, disk>>
           ELSE \E pos \in {newPosition(bars, tasks[t].quote, tasks[t].tokens,
                                        tasks[t].size, "tx", clock \div 1000)} :
                   /\ position' = pos
                   /\ stateFile' = saveState(persisted(pos, cooldownRemaining,
                                                       LedgerRec, clock))
                   /\ barsFile' = saveBars(bars)
                   /\ stateTmp' = NoFile
                   /\ UNCHANGED tradesFile
        /\ UNCHANGED <<cfg, series, cooldownRemaining, ledger, aggregator, lastPrice,
                       mainPc, clock, observed>>

\* wall-clock time passes
timePasses(steps, maxClock) ==
    \E dt \in steps :
        /\ clock + dt <= maxClock
        /\ clock' = clock + dt
        /\ ret' = [op |-> "clock", arg |-> dt, out |-> [kind |-> "void"]]
        /\ UNCHANGED <<cfg, series, cooldownRemaining, position, ledger, aggregator,
                       lastPrice, mainPc, tasks, disk, observed>>

\* token-config.ts: ADMIN_TOKEN, "" when the variable is not set
ADMIN_TOKEN == cfg.ADMIN_TOKEN

\* startHttpServer: what the request presents as x-admin-token header or as
\* token query parameter
NoToken == [kind |-> "none"]

Token(v) == [kind |-> "token", value |-> v]

\* startHttpServer: the test that answers 403
unauthorized(token) ==
    ADMIN_TOKEN # "" /\ ~(token.kind = "token" /\ token.value = ADMIN_TOKEN)

\* persistState(): saveState(...) and saveBars(strategy.bars)
persistState ==
    /\ stateFile' = saveState(persisted(position, cooldownRemaining, LedgerRec, clock))
    /\ stateTmp' = NoFile
    /\ barsFile' = saveBars(bars)
    /\ UNCHANGED tradesFile

\* setInterval(() => persistState(), 5 * 60 * 1000)
persistTimer ==
    /\ mainPc = "running"
    /\ persistState
    /\ ret' = [op |-> "persistState", arg |-> Null, out |-> [kind |-> "void"]]
    /\ UNCHANGED <<cfg, series, cooldownRemaining, position, ledger, aggregator,
                   lastPrice, mainPc, tasks, clock, observed>>

\* POST /admin/save
adminSave(tokens) ==
    \E token \in tokens :
        /\ mainPc = "running"
        /\ IF unauthorized(token)
           THEN /\ ret' = [op |-> "adminSave", arg |-> token, out |-> [kind |-> "403"]]
                /\ UNCHANGED disk
           ELSE /\ ret' = [op |-> "adminSave", arg |-> token, out |-> [kind |-> "saved"]]
                /\ persistState
        /\ UNCHANGED <<cfg, series, cooldownRemaining, position, ledger, aggregator,
                       lastPrice, mainPc, tasks, clock, observed>>

\* POST /admin/close: executeSell("timeout") when a position is open; the
\* shadow sell runs to completion, the armed one stops at its first await
adminClose(tokens) ==
    \E token \in tokens :
        /\ mainPc = "running"
        /\ IF unauthorized(token)
           THEN /\ ret' = [op |-> "adminClose", arg |-> token, out |-> [kind |-> "403"]]
                /\ UNCHANGED <<cooldownRemaining, position, ledger, tasks, disk>>
           ELSE IF position = Null
           THEN /\ ret' = [ op |-> "adminClose", arg |-> token,
                            out |-> [kind |-> "noPosition"] ]
                /\ UNCHANGED <<cooldownRemaining, position, ledger, tasks, disk>>
           ELSE IF ~SWAPS_ARMED \/ position.txSignature = "shadow"
           THEN /\ ret' = [op |-> "adminClose", arg |-> token, out |-> [kind |-> "closed"]]
                /\ closeAndPersist(lastPrice,
                       [ entryTime |-> position.entryTime * 1000,
                         exitTime |-> clock,
                         entryPrice |-> position.entryPrice,
                         exitPrice |-> lastPrice,
                         reason |-> "timeout",
                         barsHeld |-> Len(bars) - 1 - position.entryBar ])
                /\ UNCHANGED tasks
           ELSE /\ ret' = [op |-> "adminClose", arg |-> token, out |-> [kind |-> "selling"]]
                /\ \E t \in DOMAIN tasks :
                      /\ tasks[t].pc = "idle"
                      /\ \A u \in 1..(t - 1) : tasks[u].pc # "idle"
                      /\ tasks' = [tasks EXCEPT ![t] =
                                     [pc |-> "sellBalance", reason |-> "timeout",
                                      pos |-> position]]
                /\ UNCHANGED <<cooldownRemaining, position, ledger, disk>>
        /\ UNCHANGED <<cfg, series, aggregator, lastPrice, mainPc, clock, observed>>

\* the process is stopped and started again: every module-level variable of
\* runtime.ts is initialised anew, calls in flight are gone, the files stay
\* as they are
processStops ==
    /\ bars' = <<>>
    /\ emaFastArr' = <<>>
    /\ emaSlowArr' = <<>>
    /\ atrArr' = <<>>
    /\ cooldownRemaining' = 0
    /\ position' = Null
    /\ totalTrades' = 0
    /\ totalWins' = 0
    /\ totalPnlPct' = R(0)
    /\ peakEquity' = R(1)
    /\ equity' = R(1)
    /\ maxDrawdown' = R(0)
    /\ currentBarStart' = 0
    /\ currentBarOpen' = R(0)
    /\ currentBarHigh' = NegInfinity
    /\ currentBarLow' = PosInfinity
    /\ currentBarClose' = R(0)
    /\ lastPrice' = R(0)
    /\ observed' = <<>>
    /\ mainPc' = "init"
    /\ tasks' = [t \in DOMAIN tasks |-> Idle]
    /\ ret' = [op |-> "restart", arg |-> Null, out |-> [kind |-> "void"]]
    /\ UNCHANGED <<cfg, clock, disk>>

\* the process is stopped between two ticks
restart ==
    /\ mainPc = "running"
    /\ processStops

\* saveState, first step: writeFileSync opens the temporary file and starts
\* writing JSON.stringify(state); until the write completes the file holds
\* a part of that text
saveStateOpenInPlace ==
    /\ mainPc = "running"
    /\ stateFile' = DamagedFile(persisted(position, cooldownRemaining, LedgerRec, clock))
    /\ mainPc' = "saveWrite"
    /\ ret' = [op |-> "saveState", arg |-> "open", out |-> [kind |-> "void"]]
    /\ UNCHANGED <<cfg, series, cooldownRemaining, position, ledger, aggregator,
                   lastPrice, tasks, clock, barsFile, stateTmp, tradesFile, observed>>

saveStateOpen ==
    /\ mainPc = "running"
    /\ stateTmp' = DamagedFile(persisted(position, cooldownRemaining, LedgerRec, clock))
    /\ mainPc' = "saveWrite"
    /\ ret' = [op |-> "saveState", arg |-> "open", out |-> [kind |-> "void"]]
    /\ UNCHANGED <<cfg, series, cooldownRemaining, position, ledger, aggregator,
                   lastPrice, tasks, clock, barsFile, stateFile, tradesFile, observed>>

\* saveState: writeFileSync has written the whole text
saveStateWrite ==
    /\ mainPc = "saveWrite"
    /\ stateTmp' = JsonFile(stateTmp.value)
    /\ mainPc' = "saveRename"
    /\ ret' = [op |-> "saveState", arg |-> "write", out |-> [kind |-> "void"]]
    /\ UNCHANGED <<cfg, series, cooldownRemaining, position, ledger, aggregator,
                   lastPrice, tasks, clock, barsFile, stateFile, tradesFile, observed>>

\* saveState: fs.renameSync(tmp, STATE_FILE)
saveStateRename ==
    /\ mainPc = "saveRename"
    /\ stateFile' = stateTmp
    /\ stateTmp' = NoFile
    /\ mainPc' = "saveBars"
    /\ ret' = [op |-> "saveState", arg |-> "rename", out |-> [kind |-> "void"]]
    /\ UNCHANGED <<cfg, series, cooldownRemaining, position, ledger, aggregator,
                   lastPrice, tasks, clock, barsFile, tradesFile, observed>>

\* persistState after saveState has returned: saveBars(strategy.bars)
saveBarsStep ==
    /\ mainPc = "saveBars"
    /\ barsFile' = saveBars(bars)
    /\ mainPc' = "running"
    /\ ret' = [op |-> "persistState", arg |-> Null, out |-> [kind |-> "void"]]
    /\ UNCHANGED <<cfg, series, cooldownRemaining, position, ledger, aggregator,
                   lastPrice, tasks, clock, stateFile, stateTmp, tradesFile, observed>>

\* the process is stopped inside persistState
crash ==
    /\ mainPc \in {"saveWrite", "saveRename", "saveBars"}
    /\ processStops

(* Specification Spec: the engine starts from a bars file of SavedCount     *)
(* flat bars and is then fed bars that trend, so that the entry gates      *)
(* open and close.                                                         *)

SavedCount == 5

SavedBars == [i \in 1..SavedCount |-> FlatBar(i * (BAR_MS \div 1000), R(96))]

BarCloses == {R(96), R(112)}

EntryConfigs == {BaseConfig, ZeroSlopeConfig}

EntryChecks == {R(96), R(100), R(110)}

OpenPrices == {R(100)}

ExitChecks == {R(96), R(108)}

ClosePrices == {R(96), R(109)}

Init ==
    /\ cfg \in EntryConfigs
    /\ InitEngine(SavedBars)
    /\ InitGlobals("running", 0, JsonFile(SavedBars), NoFile, NoFile)

Next ==
    \/ AddBarCall(BarCloses, MaxBars)
    \/ getIndicatorsCall
    \/ CheckEntryCall(EntryChecks)
    \/ OpenPositionCall(OpenPrices)
    \/ CheckExitCall(ExitChecks)
    \/ ClosePositionCall(ClosePrices)
    \/ getState

Spec == Init /\ [][Next]_vars

(* Specification SpecExit: a flat market and the prices around the exit    *)
(* thresholds of a position entered at 100, under every exit profile.      *)

ExitConfigs == {BaseConfig, TrailConfig, Tp2Config, Tp2TrailConfig}

FlatCloses == {R(100)}

ExitPrices == {R(96), Frac(9601, 100), Frac(1056, 10), R(107), R(108), R(109), R(112)}

InitExit ==
    /\ cfg \in ExitConfigs
    /\ InitEngine(<<>>)
    /\ InitGlobals("running", 0, NoFile, NoFile, NoFile)

NextExit ==
    \/ AddBarCall(FlatCloses, MaxExitBars)
    \/ getIndicatorsCall
    \/ CheckEntryCall(OpenPrices)
    \/ OpenPositionCall(OpenPrices)
    \/ CheckExitCall(ExitPrices)
    \/ ClosePositionCall(ClosePrices)
    \/ getState

SpecExit == InitExit /\ [][NextExit]_vars

(* Specification SpecLedger: a sequence of trades entered at 100 and       *)
(* closed at a loss, at the fee break-even and at a gain.                  *)

MaxLedgerBars == 2

MaxLedgerTrades == 3

LedgerConfigs == {BaseConfig}

\* exits of a position entered at 100: -4.96%, +0.04% and +10.04% gross
LedgerCloses == {Frac(9504, 100), Frac(10004, 100), Frac(11004, 100)}

LedgerChecks == {R(100)}

CloseUpTo(exits, maxTrades) ==
    \E p \in exits :
        /\ position = Null \/ totalTrades < maxTrades
        /\ closePosition(p, "timeout")

InitLedger ==
    /\ cfg \in LedgerConfigs
    /\ InitEngine(<<>>)
    /\ InitGlobals("running", 0, NoFile, NoFile, NoFile)

NextLedger ==
    \/ AddBarCall(FlatCloses, MaxLedgerBars)
    \/ getIndicatorsCall
    \/ CheckEntryCall(LedgerChecks)
    \/ OpenPositionCall(OpenPrices)
    \/ CheckExitCall(LedgerChecks)
    \/ CloseUpTo(LedgerCloses, MaxLedgerTrades)
    \/ getState

SpecLedger == InitLedger /\ [][NextLedger]_vars

(* Specification SpecBars: a cold engine fed quiet bars, bars with a       *)
(* spiking high or low, and bars that gap far above or below the previous  *)
(* close.                                                                  *)

MaxSpikeBars == 3

BarConfigs == {BaseConfig}

\* the bars a feed can deliver at time t
BarShapes(t) ==
    { FlatBar(t, R(100)),
      Bar(t, R(100), R(400), R(100), R(100)),
      Bar(t, R(100), R(100), R(20), R(100)),
      FlatBar(t, R(400)),
      FlatBar(t, R(20)) }

AddShapedBar(maxBars) ==
    \E b \in BarShapes(NextT) :
        /\ Len(bars) < maxBars
        /\ addBar(b)

InitBars ==
    /\ cfg \in BarConfigs
    /\ InitEngine(<<>>)
    /\ InitGlobals("running", 0, NoFile, NoFile, NoFile)

NextBars ==
    \/ AddShapedBar(MaxSpikeBars)
    \/ getIndicatorsCall
    \/ CheckEntryCall(OpenPrices)
    \/ OpenPositionCall(OpenPrices)
    \/ CheckExitCall(OpenPrices)
    \/ ClosePositionCall(OpenPrices)
    \/ getState

SpecBars == InitBars /\ [][NextBars]_vars

(* Specification SpecFeed: the runtime in shadow mode on an empty disk,    *)
(* polled up to MaxObserved times per bucket, with buckets that pass        *)
(* without a poll.                                                         *)

MaxFeedHours == 2

MaxObserved == 3

\* the environment defaults: swaps disarmed
ShadowEnv ==
    [ENABLE_SWAPS |-> FALSE, ALLOW_MAINNET_SWAPS |-> FALSE, SOLANA_CLUSTER |-> "devnet"]

FeedConfigs == {BaseConfig @@ ShadowEnv}

\* Date.now() when the process starts
StartMs == 8 * BAR_MS

FeedPrices == {R(100), R(112)}

FeedSteps == {BAR_MS \div 2, 2 * BAR_MS}

\* fetchCoinGeckoHistory threw, or returned no candles
NoHistory == {[kind |-> "throws"], [kind |-> "history", bars |-> <<>>]}

InitFeed ==
    /\ cfg \in FeedConfigs
    /\ InitEngine(<<>>)
    /\ InitGlobals("init", StartMs, NoFile, NoFile, NoFile)

NextFeed ==
    \/ init(NoHistory)
    \/ timer
    \/ pollFails
    \/ mainLoop(FeedPrices, MaxObserved)
    \/ timePasses(FeedSteps, StartMs + MaxFeedHours * BAR_MS)

SpecFeed == InitFeed /\ [][NextFeed]_vars

(* Specification SpecRuntime: the runtime restarted on a disk that may     *)
(* hold seven saved bars of a rising market, armed or in shadow mode, with *)
(* every await of a buy or a sell free to fail.                            *)

MaxRunHours == 2

MaxRunObserved == 1

\* ENABLE_SWAPS=true ALLOW_MAINNET_SWAPS=true SOLANA_CLUSTER=mainnet-beta
ArmedEnv ==
    [ENABLE_SWAPS |-> TRUE, ALLOW_MAINNET_SWAPS |-> TRUE, SOLANA_CLUSTER |-> "mainnet-beta"]

RunConfigs == {BaseConfig @@ ShadowEnv, BaseConfig @@ ArmedEnv}

\* the bars file a previous run left: hours 2 to 8, six quiet bars and a rise
RunSavedBars ==
    [i \in 1..7 |-> FlatBar((i + 1) * (BAR_MS \div 1000),
                            IF i < 7 THEN R(96) ELSE Frac(11004, 100))]

RunBarsFiles == {JsonFile(RunSavedBars)}

\* Date.now() when the process restarts: the bucket after the last saved bar
RunStartMs == 9 * BAR_MS

\* what fetchCoinGeckoHistory returns: it throws, or it delivers candles that
\* reach back before the saved bars (hour 1) and overlap them (hour 4)
RunHistories ==
    { [kind |-> "throws"],
      [kind |-> "history",
       bars |-> << FlatBar(1 * (BAR_MS \div 1000), R(96)),
                   FlatBar(4 * (BAR_MS \div 1000), R(96)) >>] }

RunPrices == {R(100), Frac(11004, 100)}

RunSteps == {BAR_MS}

\* getBuyQuote and getSellQuote: the quoted price per token
RunBuyQuotes == {R(100)}

RunSellQuotes == {R(100), Frac(11004, 100)}

\* the USDC balance of the wallet
RunBalances == {R(2), R(100)}

\* priceImpactPct of a buy quote
RunImpacts == {R(0), R(2)}

InitRuntime ==
    /\ cfg \in RunConfigs
    /\ InitEngine(<<>>)
    /\ \E f \in RunBarsFiles : InitGlobals("init", RunStartMs, f, NoFile, NoFile)

NextRuntime ==
    \/ init(RunHistories)
    \/ timer
    \/ pollFails
    \/ mainLoop(RunPrices, MaxRunObserved)
    \/ sellBalance
    \/ sellQuote(RunSellQuotes)
    \/ sellSwap
    \/ sellSend
    \/ sellConfirm
    \/ buyBalance(RunBalances)
    \/ buyQuote(RunBuyQuotes, RunImpacts)
    \/ buySwap
    \/ buySend
    \/ buyConfirm
    \/ timePasses(RunSteps, RunStartMs + MaxRunHours * BAR_MS)

SpecRuntime == InitRuntime /\ [][NextRuntime]_vars

(* Specification SpecRace: the armed runtime after a restore of the saved  *)
(* bars, with two asynchronous calls in flight at a time: timer ticks that *)
(* overlap while a buy or a sell awaits its I/O, and /admin/close.         *)

RaceTasks == 2

MaxRaceHours == 2

MaxRaceObserved == 2

\* MIN_EMA_SLOPE=0, swaps armed, ADMIN_TOKEN not set
RaceConfigs == {ZeroSlopeConfig @@ ArmedEnv @@ [ADMIN_TOKEN |-> ""]}

RacePrices == {R(100), Frac(11004, 100)}

RaceQuotes == {R(100)}

RaceBalances == {R(100)}

RaceImpacts == {R(0)}

RaceRequestTokens == {NoToken}

InitRace ==
    /\ cfg \in RaceConfigs
    /\ InitEngine(RunSavedBars)
    /\ InitModule("running", RunStartMs, JsonFile(RunSavedBars), NoFile, NoFile, RaceTasks)

NextRace ==
    \/ timer
    \/ pollFails
    \/ mainLoop(RacePrices, MaxRaceObserved)
    \/ sellBalance
    \/ sellQuote(RaceQuotes)
    \/ sellSwap
    \/ sellSend
    \/ sellConfirm
    \/ buyBalance(RaceBalances)
    \/ buyQuote(RaceQuotes, RaceImpacts)
    \/ buySwap
    \/ buySend
    \/ buyConfirm
    \/ adminClose(RaceRequestTokens)
    \/ timePasses(RunSteps, RunStartMs + MaxRaceHours * BAR_MS)

SpecRace == InitRace /\ [][NextRace]_vars

(* Specification SpecRestart: the shadow runtime on a disk that holds the  *)
(* saved bars, trading, saving its state and being stopped and started     *)
(* again, with or without a history to backfill from.                      *)

MaxRestartHours == 2

MaxRestartObserved == 1

RestartConfigs == {BaseConfig @@ ShadowEnv @@ [ADMIN_TOKEN |-> ""]}

InitRestart ==
    /\ cfg \in RestartConfigs
    /\ InitEngine(<<>>)
    /\ InitGlobals("init", RunStartMs, JsonFile(RunSavedBars), NoFile, NoFile)

NextRestart ==
    \/ init(RunHistories)
    \/ timer
    \/ pollFails
    \/ mainLoop(RunPrices, MaxRestartObserved)
    \/ persistTimer
    \/ restart
    \/ timePasses(RunSteps, RunStartMs + MaxRestartHours * BAR_MS)

SpecRestart == InitRestart /\ [][NextRestart]_vars

(* Specification SpecArming: the runtime after a restore of the saved     *)
(* bars under every combination of the three arming variables, trading    *)
(* through timer ticks and /admin/close.                                   *)

MaxArmHours == 1

MaxArmObserved == 1

ArmConfigs ==
    { BaseConfig @@ [ENABLE_SWAPS |-> e, ALLOW_MAINNET_SWAPS |-> a, SOLANA_CLUSTER |-> c]
                 @@ [ADMIN_TOKEN |-> ""] :
        e \in BOOLEAN, a \in BOOLEAN, c \in {"devnet", "mainnet-beta"} }

InitArming ==
    /\ cfg \in ArmConfigs
    /\ InitEngine(RunSavedBars)
    /\ InitGlobals("running", RunStartMs, JsonFile(RunSavedBars), NoFile, NoFile)

NextArming ==
    \/ timer
    \/ pollFails
    \/ mainLoop(RunPrices, MaxArmObserved)
    \/ sellBalance
    \/ sellQuote(RunSellQuotes)
    \/ sellSwap
    \/ sellSend
    \/ sellConfirm
    \/ buyBalance(RunBalances)
    \/ buyQuote(RunBuyQuotes, RunImpacts)
    \/ buySwap
    \/ buySend
    \/ buyConfirm
    \/ adminClose(RaceRequestTokens)
    \/ timePasses(RunSteps, RunStartMs + MaxArmHours * BAR_MS)

SpecArming == InitArming /\ [][NextArming]_vars

\* the endpoints /admin/save and /admin/close of a running shadow-mode
\* process, with and without an ADMIN_TOKEN configured
MaxAdminHours == 1

MaxAdminObserved == 1

AdminConfigs ==
    { BaseConfig @@ ShadowEnv @@ [ADMIN_TOKEN |-> a] : a \in {"", "secret"} }

\* x-admin-token header or token query parameter of a request
AdminRequestTokens == {NoToken, Token("secret"), Token("guess")}

InitAdmin ==
    /\ cfg \in AdminConfigs
    /\ InitEngine(RunSavedBars)
    /\ InitGlobals("running", RunStartMs, JsonFile(RunSavedBars), NoFile, NoFile)

NextAdmin ==
    \/ timer
    \/ pollFails
    \/ mainLoop(RunPrices, MaxAdminObserved)
    \/ adminSave(AdminRequestTokens)
    \/ adminClose(AdminRequestTokens)
    \/ timePasses(RunSteps, RunStartMs + MaxAdminHours * BAR_MS)

SpecAdmin == InitAdmin /\ [][NextAdmin]_vars

\* a running shadow-mode process started on a trade log that is missing,
\* holds earlier trades, or holds them in a damaged file
MaxLogHours == 2

MaxLogObserved == 1

LogConfigs == {BaseConfig @@ ShadowEnv @@ [ADMIN_TOKEN |-> ""]}

\* a trade closed by an earlier run of the process
EarlierTrade ==
    [ entryTime |-> 1 * BAR_MS, exitTime |-> 2 * BAR_MS,
      entryPrice |-> R(96), exitPrice |-> R(100), reason |-> "tp1",
      pnlPct |-> Frac(4, 96), pnlNet |-> Frac(4, 96), barsHeld |-> 1,
      equityAfter |-> R(1) ]

TradeLogs ==
    {NoFile, JsonFile(<<>>), JsonFile(<<EarlierTrade>>), DamagedFile(<<EarlierTrade>>)}

InitLog ==
    /\ cfg \in LogConfigs
    /\ InitEngine(RunSavedBars)
    /\ \E log \in TradeLogs :
          InitGlobals("running", RunStartMs, JsonFile(RunSavedBars), NoFile, log)

NextLog ==
    \/ timer
    \/ pollFails
    \/ mainLoop(RunPrices, MaxLogObserved)
    \/ adminClose(RaceRequestTokens)
    \/ timePasses(RunSteps, RunStartMs + MaxLogHours * BAR_MS)

SpecLog == InitLog /\ [][NextLog]_vars

(* Specification SpecConst: bars whose open, high, low and close are all    *)
(* the same price, fed to a cold engine under the default indicator        *)
(* lengths, with the arithmetic of addBar rounded as floating point is.    *)

\* token-config.ts: the default of EMA_FAST_LEN
DefaultEmaFastLen == 14

\* a JavaScript number is a binary floating-point value whose significand
\* has 53 bits; the rounded arithmetic below keeps SignificandBits of them
SignificandBits == 10

MaxConstBars == 56

RECURSIVE Pow2(_)
Pow2(i) == IF i = 0 THEN 1 ELSE 2 * Pow2(i - 1)

\* x * 2^e
Scale(x, e) == IF e >= 0 THEN RMul(x, R(Pow2(e))) ELSE RMul(x, Frac(1, Pow2(-e)))

\* for x > 0, the exponent f nearest to e at which x / 2^f has exactly
\* SignificandBits bits before the binary point
RECURSIVE ExponentOf(_, _)
ExponentOf(x, e) ==
    IF RGe(Scale(x, -e), R(Pow2(SignificandBits))) THEN ExponentOf(x, e + 1)
    ELSE IF RLt(Scale(x, -e), R(Pow2(SignificandBits - 1))) THEN ExponentOf(x, e - 1)
    ELSE e

\* the integer nearest to q >= 0, the even one of two equally near
RoundEven(q) ==
    LET m == q[1] \div q[2]
        r == q[1] % q[2]
    IN  IF 2 * r > q[2] \/ (2 * r = q[2] /\ m % 2 = 1) THEN m + 1 ELSE m

\* the floating-point value an arithmetic operation returns when its exact
\* result is x: round to nearest, ties to even
fl(x) ==
    IF x[1] = 0 THEN R(0)
    ELSE LET e == ExponentOf(RAbs(x), 0)
             v == Scale(R(RoundEven(Scale(RAbs(x), -e))), e)
         IN  IF x[1] < 0 THEN RNeg(v) ELSE v

\* addBar: the value pushed on an EMA array, every operation rounded
emaPushRounded(len, bs, arr) ==
    LET n == Len(bs)
        k == fl(Frac(2, len + 1))
    IN  IF n = 1 THEN bs[n].c
        ELSE fl(RAdd(fl(RMul(bs[n].c, k)), fl(RMul(arr[n - 1], fl(RSub(R(1), k))))))

\* addBar: true range of bs[i], every operation rounded
trueRangeRounded(bs, i) ==
    IF i = 1
    THEN fl(RSub(bs[1].h, bs[1].l))
    ELSE RMax(RMax(fl(RSub(bs[i].h, bs[i].l)),
                   RAbs(fl(RSub(bs[i].h, bs[i - 1].c)))),
              RAbs(fl(RSub(bs[i].l, bs[i - 1].c))))

RECURSIVE trSumRounded(_, _)
trSumRounded(bs, n) ==
    IF n = 1 THEN trueRangeRounded(bs, 1)
    ELSE fl(RAdd(trSumRounded(bs, n - 1), trueRangeRounded(bs, n)))

\* addBar: the value pushed on atrArr, every operation rounded
atrPushRounded(bs, arr) ==
    LET n == Len(bs)
    IN  IF n = 1 THEN fl(RSub(bs[1].h, bs[1].l))
        ELSE IF n <= ATR_LEN
             THEN fl(RDiv(trSumRounded(bs, n), R(n)))
             ELSE fl(RDiv(fl(RAdd(fl(RMul(arr[n - 1], R(ATR_LEN - 1))),
                                  trueRangeRounded(bs, n))),
                          R(ATR_LEN)))

\* addBar in floating point; the spike filter leaves a bar at the previous
\* close as it is
addBarRounded(bar) ==
    \E bs \in {Append(bars, sanitize(bars, bar))} :
        /\ bars' = bs
        /\ emaFastArr' = Append(emaFastArr, emaPushRounded(EMA_FAST_LEN, bs, emaFastArr))
        /\ emaSlowArr' = Append(emaSlowArr, emaPushRounded(EMA_SLOW_LEN, bs, emaSlowArr))
        /\ atrArr' = Append(atrArr, atrPushRounded(bs, atrArr))
        /\ cooldownRemaining' = tickCooldown(cooldownRemaining)
        /\ ret' = [op |-> "addBar", arg |-> bar, out |-> [kind |-> "void"]]
        /\ UNCHANGED <<cfg, runtime, position, ledger>>

\* the default indicator lengths, MIN_EMA_SLOPE=0
ConstConfigs ==
    { [ZeroSlopeConfig EXCEPT !.EMA_FAST_LEN = DefaultEmaFastLen,
                              !.EMA_SLOW_LEN = DefaultEmaSlowLen,
                              !.ATR_LEN = DefaultAtrLen]
          @@ ShadowEnv @@ [ADMIN_TOKEN |-> ""] }

\* the price every bar of a run sits at
ConstPrices == {R(96), R(100), R(110), R(150)}

\* the next bar of the run: at the price of the first one
AddConstBar(prices, maxBars) ==
    \E c \in (IF bars = <<>> THEN prices ELSE {bars[1].c}) :
        /\ Len(bars) < maxBars
        /\ addBarRounded(FlatBar(NextT, c))

InitConst ==
    /\ cfg \in ConstConfigs
    /\ InitEngine(<<>>)
    /\ InitGlobals("running", 0, NoFile, NoFile, NoFile)

NextConst ==
    \/ AddConstBar(ConstPrices, MaxConstBars)
    \/ getIndicatorsCall
    \/ CheckEntryCall(ConstPrices)

SpecConst == InitConst /\ [][NextConst]_vars

(* Specification SpecTick: several ticks per bar, shadow and armed, so that *)
(* a tick can find a position open, close it, or find the engine flat on   *)
(* a tick that completed no bar.                                           *)

MaxTickHours == 1

MaxTickObserved == 2

TickConfigs ==
    { BaseConfig @@ ShadowEnv @@ [ADMIN_TOKEN |-> ""],
      BaseConfig @@ ArmedEnv @@ [ADMIN_TOKEN |-> ""] }

InitTick ==
    /\ cfg \in TickConfigs
    /\ InitEngine(RunSavedBars)
    /\ InitGlobals("running", RunStartMs, JsonFile(RunSavedBars), NoFile, NoFile)

NextTick ==
    \/ timer
    \/ pollFails
    \/ mainLoop(RunPrices, MaxTickObserved)
    \/ sellBalance
    \/ sellQuote(RaceQuotes)
    \/ sellSwap
    \/ sellSend
    \/ sellConfirm
    \/ buyBalance(RaceBalances)
    \/ buyQuote(RaceQuotes, RaceImpacts)
    \/ buySwap
    \/ buySend
    \/ buyConfirm
    \/ timePasses(RunSteps, RunStartMs + MaxTickHours * BAR_MS)

SpecTick == InitTick /\ [][NextTick]_vars

(* Specification SpecCrash: the shadow runtime whose periodic persistState  *)
(* runs step by step and whose process can be stopped at each of the       *)
(* steps and started again.                                                *)

MaxCrashHours == 2

MaxCrashObserved == 1

CrashConfigs == {BaseConfig @@ ShadowEnv @@ [ADMIN_TOKEN |-> ""]}

InitCrash ==
    /\ cfg \in CrashConfigs
    /\ InitEngine(<<>>)
    /\ InitGlobals("init", RunStartMs, JsonFile(RunSavedBars), NoFile, NoFile)

\* a tick continues only while no synchronous call is running
NextCrash ==
    \/ init(RunHistories)
    \/ timer
    \/ (mainPc = "running" /\ pollFails)
    \/ (mainPc = "running" /\ mainLoop(RunPrices, MaxCrashObserved))
    \/ saveStateOpen
    \/ saveStateWrite
    \/ saveStateRename
    \/ saveBarsStep
    \/ crash
    \/ restart
    \/ timePasses(RunSteps, RunStartMs + MaxCrashHours * BAR_MS)

SpecCrash == InitCrash /\ [][NextCrash]_vars

(* Specification SpecLive: the shadow runtime after a restore of the saved *)
(* bars, with and without trailing, in which every bucket is polled before *)
(* the clock moves on: the timer keeps firing, polls keep succeeding and   *)
(* bars keep being completed, up to the horizon.                           *)

MaxLiveHours == 4

MaxLiveObserved == 1

LiveConfigs ==
    { BaseConfig @@ ShadowEnv @@ [ADMIN_TOKEN |-> ""],
      TrailConfig @@ ShadowEnv @@ [ADMIN_TOKEN |-> ""] }

LivePrices == {R(100), Frac(11004, 100)}

LiveHorizon == RunStartMs + MaxLiveHours * BAR_MS

InitLive ==
    /\ cfg \in LiveConfigs
    /\ InitEngine(RunSavedBars)
    /\ InitGlobals("running", RunStartMs, JsonFile(RunSavedBars), NoFile, NoFile)

\* processPrice has seen a price in the bucket of the clock
bucketPolled == (clock \div BAR_MS) * BAR_MS = currentBarStart

\* the next bucket begins, the current one having been polled
nextBucket == bucketPolled /\ timePasses({BAR_MS}, LiveHorizon)

NextLive ==
    \/ timer
    \/ pollFails
    \/ mainLoop(LivePrices, MaxLiveObserved)
    \/ nextBucket

\* mainLoop can continue: a tick awaits its price, and the bucket of the
\* clock has room for another poll
pollCanReturn ==
    \E t \in DOMAIN tasks :
        /\ tasks[t].pc = "poll"
        /\ bucketPolled => Len(observed) < MaxLiveObserved

\* setInterval fires for as long as the process runs, time passes, and
\* polls keep succeeding: strong fairness of mainLoop, written with its
\* enabling condition
FairLive ==
    /\ WF_vars(timer)
    /\ WF_vars(nextBucket)
    /\ \/ <>[](~pollCanReturn)
       \/ []<><<mainLoop(LivePrices, MaxLiveObserved)>>_vars

SpecLive == InitLive /\ [][NextLive]_vars /\ FairLive

----------------------------------------------------------------------------
(* Properties of the engine                                                *)

Flat == position = Null

InPosition == position # Null

\* the call that produced the current state
Called(op) == ret.op = op

\* the six entry gates of checkEntry(price), read off the engine state
GateReady == Len(bars) >= IMax(cfg.EMA_SLOW_LEN, cfg.ATR_LEN) + 5

GateSlope ==
    LET n == Len(bars)
    IN  IF n > 0 /\ emaSlowArr[n][1] > 0
        THEN RGe(RSub(emaFastArr[n], emaSlowArr[n]),
                 RMul(cfg.MIN_EMA_SLOPE, emaSlowArr[n]))
        ELSE RLe(cfg.MIN_EMA_SLOPE, R(0))

ZoneTop ==
    LET n == Len(bars)
    IN  RSub(emaFastArr[n], RMul(cfg.ZONE_ATR_MULT, atrArr[n]))

GateZone(price) == Len(bars) > 0 /\ RLe(price, ZoneTop)

GateAtr == Len(bars) > 0 /\ atrArr[Len(bars)][1] > 0

AllGates(price) ==
    /\ GateReady
    /\ Flat
    /\ cooldownRemaining = 0
    /\ GateSlope
    /\ GateZone(price)
    /\ GateAtr

\* C1: state-machine exclusivity.  checkEntry returns no signal whenever a
\* position is open and checkExit returns no signal whenever no position is
\* open, whatever the price.
C1_Exclusivity ==
    /\ Called("checkEntry") /\ InPosition => ret.out = Null
    /\ Called("checkExit") /\ Flat => ret.out = Null

\* C1 witness: checkEntry refused a price although every gate but the
\* position gate was open.
C1_Witness ==
    /\ Called("checkEntry")
    /\ InPosition
    /\ GateReady /\ cooldownRemaining = 0 /\ GateSlope /\ GateZone(ret.arg) /\ GateAtr
    /\ ret.out = Null

\* C2: the position slot goes from FLAT to IN_POSITION only in an
\* openPosition step and from IN_POSITION to FLAT only in a closePosition
\* step; no other call creates or destroys the position.
C2_OnlyOpenAndClose ==
    [][ /\ (Flat /\ position' # Null) => ret'.op = "openPosition"
        /\ (InPosition /\ position' = Null) => ret'.op = "closePosition"
        /\ ret'.op \notin {"openPosition", "closePosition"}
              => (position = Null <=> position' = Null) ]_vars

\* C2 witness: a position was opened, examined by checkExit with an exit
\* signal and is still open; a later closePosition has closed another one.
C2_Witness ==
    /\ Called("checkExit")
    /\ ret.out # Null
    /\ InPosition
    /\ totalTrades > 0

\* C3 (as claimed): openPosition on an engine that holds a position fails
\* and leaves that position as it was.
C3_OpenWhileOpenFails ==
    [][ ret'.op = "openPosition" /\ InPosition
            => ret'.out.kind = "throw" /\ position' = position ]_vars

\* C4: closePosition on a flat engine throws and leaves the ledger and the
\* cooldown counter (and the empty position slot) unchanged.
C4_CloseWhileFlatFails ==
    [][ ret'.op = "closePosition" /\ Flat
            => /\ ret'.out.kind = "throw"
               /\ position' = Null
               /\ UNCHANGED <<ledger, cooldownRemaining>> ]_vars

\* C4 witness: closePosition threw on a flat engine whose ledger holds a
\* trade and whose cooldown has started to run down.
C4_Witness ==
    /\ Called("closePosition")
    /\ ret.out.kind = "throw"
    /\ Flat
    /\ totalTrades > 0
    /\ cooldownRemaining < cfg.COOLDOWN_BARS

\* C5: checkEntry(price) returns a signal exactly when the six gates hold
\* together, and a returned signal carries
\* zoneDepth = (buyZoneTop - price) / atr, which is not negative.
C5_EntryGates ==
    Called("checkEntry") =>
        /\ ret.out # Null <=> AllGates(ret.arg)
        /\ ret.out # Null =>
              /\ RMul(ret.out.zoneDepth, atrArr[Len(bars)]) = RSub(ZoneTop, ret.arg)
              /\ ret.out.zoneDepth[1] >= 0

\* C5 witness: checkEntry returned a signal for a price strictly inside the
\* buy zone.
C5_Witness ==
    /\ Called("checkEntry")
    /\ ret.out # Null
    /\ ret.out.zoneDepth[1] > 0

(* Exit rules of checkExit(price), read off the open position              *)

HeldBars == Len(bars) - 1 - position.entryBar

\* pnlPct >= pct, i.e. price - entryPrice >= pct * entryPrice
GainAtLeast(price, pct) ==
    RGe(RSub(price, position.entryPrice), RMul(pct, position.entryPrice))

Tp2Hit(price) == cfg.TP2_PCT[1] > 0 /\ GainAtLeast(price, cfg.TP2_PCT)

Tp1Hit(price) == GainAtLeast(price, cfg.TP1_PCT)

\* pnlPct <= -SL_PCT
SlHit(price) ==
    RLe(RSub(price, position.entryPrice), RMul(RNeg(cfg.SL_PCT), position.entryPrice))

TimedOut == HeldBars >= cfg.MAX_BARS_IN_POS

Trailing == cfg.TRAIL_PCT[1] > 0

\* (highSinceEntry - price) / highSinceEntry >= TRAIL_PCT; after a checkExit
\* call position.highSinceEntry is the watermark that call compared against
TrailHit(price) ==
    RGe(RSub(position.highSinceEntry, price),
        RMul(cfg.TRAIL_PCT, position.highSinceEntry))

Reason == IF ret.out = Null THEN "none" ELSE ret.out.reason

\* C6: checkExit applies tp2, tp1/trail, sl, timeout in this order and the
\* first rule whose condition holds decides the result; with no rule
\* matching it returns no signal.
C6_ExitPriority ==
    Called("checkExit") /\ InPosition =>
        LET p == ret.arg
        IN  /\ Tp2Hit(p) => Reason = "tp2"
            /\ ~Tp2Hit(p) /\ Tp1Hit(p) => Reason \in {"tp1", "trail", "none"}
            /\ ~Tp2Hit(p) /\ ~Tp1Hit(p) /\ SlHit(p) => Reason = "sl"
            /\ ~Tp2Hit(p) /\ ~Tp1Hit(p) /\ ~SlHit(p) /\ TimedOut => Reason = "timeout"
            /\ ~Tp2Hit(p) /\ ~Tp1Hit(p) /\ ~SlHit(p) /\ ~TimedOut => Reason = "none"

\* C6 witness: the stop loss and the timeout both matched and checkExit
\* answered "sl".
C6_Witness ==
    /\ Called("checkExit")
    /\ InPosition
    /\ SlHit(ret.arg)
    /\ TimedOut
    /\ Reason = "sl"

\* C7: with TP1 reached and TP2 not matched, a configured trailing stop
\* makes checkExit answer "trail" exactly when the drawdown from the high
\* reaches TRAIL_PCT and no signal otherwise; without a trailing stop it
\* answers "tp1".
C7_Tp1OrTrail ==
    Called("checkExit") /\ InPosition /\ Tp1Hit(ret.arg) /\ ~Tp2Hit(ret.arg) =>
        IF Trailing
        THEN /\ TrailHit(ret.arg) => Reason = "trail"
             /\ ~TrailHit(ret.arg) => Reason = "none"
        ELSE Reason = "tp1"

\* C7 witness: trailing stop configured, TP1 reached, the price still
\* within TRAIL_PCT of the high: checkExit holds.
C7_Witness ==
    /\ Called("checkExit")
    /\ InPosition
    /\ Trailing
    /\ Tp1Hit(ret.arg)
    /\ ~Tp2Hit(ret.arg)
    /\ ~TrailHit(ret.arg)
    /\ ret.out = Null

\* C8 (as claimed): entry 100, TP1 8%, trail 3%, high 109 reached; a
\* checkExit at 105.6 answers "trail" and a checkExit at 107 answers no
\* signal (the position not yet timed out).
C8_TrailPath ==
    /\ Called("checkExit")
    /\ InPosition
    /\ cfg.TP1_PCT = Frac(8, 100)
    /\ cfg.TRAIL_PCT = Frac(3, 100)
    /\ position.entryPrice = R(100)
    /\ position.highSinceEntry = R(109)
    /\ ~TimedOut
    => /\ ret.arg = Frac(1056, 10) => Reason = "trail"
       /\ ret.arg = R(107) => Reason = "none"

\* C9: below TP1 and before the timeout, checkExit answers "sl" exactly
\* when pnlPct <= -SL_PCT (the boundary included) and no signal otherwise.
C9_StopLossInclusive ==
    Called("checkExit") /\ InPosition /\ ~Tp1Hit(ret.arg) /\ ~TimedOut =>
        /\ Reason = "sl" <=> SlHit(ret.arg)
        /\ ~SlHit(ret.arg) => Reason = "none"

\* C9 witness: checkExit answered "sl" at exactly -SL_PCT (entry 100,
\* price 96, SL 4%).
C9_Witness ==
    /\ Called("checkExit")
    /\ InPosition
    /\ ~TimedOut
    /\ RSub(ret.arg, position.entryPrice) = RMul(RNeg(cfg.SL_PCT), position.entryPrice)
    /\ Reason = "sl"

\* C10: a checkExit call on an open position sets highSinceEntry to the
\* larger of its previous value and the price, signal or not, and changes
\* nothing else; highSinceEntry never decreases while the position lives
\* and is never below entryPrice.
C10_HighWatermark ==
    /\ [](InPosition => RGe(position.highSinceEntry, position.entryPrice))
    /\ [][ /\ ret'.op = "checkExit" =>
                /\ UNCHANGED <<cfg, runtime, series, cooldownRemaining, ledger>>
                /\ IF Flat THEN position' = Null
                   ELSE position' = [position EXCEPT !.highSinceEntry =
                                        IF RLt(position.highSinceEntry, ret'.arg)
                                        THEN ret'.arg ELSE position.highSinceEntry]
           /\ InPosition /\ position' # Null /\ ret'.op # "openPosition"
                => RGe(position'.highSinceEntry, position.highSinceEntry) ]_vars

\* C10 witness: a checkExit call that returned an exit signal left the
\* price as the new high, above the entry price.
C10_Witness ==
    /\ Called("checkExit")
    /\ InPosition
    /\ ret.out # Null
    /\ position.highSinceEntry = ret.arg
    /\ RGt(position.highSinceEntry, position.entryPrice)

----------------------------------------------------------------------------
(* C11: the ledger update of a successful close                            *)

\* the net return of closing pos at exitPrice: exit/entry - 1 - 0.0004
NetReturn(pos, exitPrice) ==
    RSub(RSub(RDiv(exitPrice, pos.entryPrice), R(1)), Frac(4, 10000))

\* C11: a closePosition(exitPrice) on an open position returns
\* pnlPct = (exitPrice - entryPrice) / entryPrice and pnlNet = pnlPct - 0.0004,
\* multiplies equity by 1 + pnlNet, sets peakEquity to the larger of the old
\* peak and the new equity, sets maxDrawdown to the larger of the old value and
\* (peakEquity' - equity') / peakEquity', adds one to totalTrades, adds one to
\* totalWins exactly when pnlNet > 0, and adds pnlNet to totalPnlPct.
C11_LedgerUpdate ==
    [][ (ret'.op = "closePosition" /\ InPosition) =>
          LET net == NetReturn(position, ret'.arg)
          IN  /\ ret'.out.kind = "closed"
              /\ RMul(ret'.out.pnlPct, position.entryPrice)
                   = RSub(ret'.arg, position.entryPrice)
              /\ ret'.out.pnlNet = net
              /\ RSub(equity', equity) = RMul(equity, net)
              /\ peakEquity' = RMax(peakEquity, equity')
              /\ maxDrawdown'
                   = RMax(maxDrawdown, RSub(R(1), RDiv(equity', peakEquity')))
              /\ totalTrades' = totalTrades + 1
              /\ totalWins' - totalWins = (IF RSign(net) = 1 THEN 1 ELSE 0)
              /\ RSub(totalPnlPct', totalPnlPct) = net ]_vars

\* C11 witness: a close at the fee break-even (gross gain, net zero) after an
\* earlier winning and an earlier losing trade
C11_Witness ==
    /\ Called("closePosition")
    /\ ret.out.kind = "closed"
    /\ RGt(ret.out.pnlPct, R(0))
    /\ ret.out.pnlNet = R(0)
    /\ totalTrades = 3
    /\ totalWins = 1
    /\ RGt(peakEquity, equity)
    /\ RGt(maxDrawdown, R(0))

----------------------------------------------------------------------------
(* C12: the ledger is monotone                                             *)

\* C12: totalTrades, totalWins, peakEquity and maxDrawdown never decrease;
\* peakEquity >= equity, maxDrawdown >= 0 and totalWins <= totalTrades hold in
\* every state; every operation other than closePosition leaves the ledger
\* unchanged.
C12_LedgerMonotone ==
    /\ [](/\ RGe(peakEquity, equity)
          /\ RGe(maxDrawdown, R(0))
          /\ totalWins <= totalTrades)
    /\ [][ /\ totalTrades' >= totalTrades
           /\ totalWins' >= totalWins
           /\ RGe(peakEquity', peakEquity)
           /\ RGe(maxDrawdown', maxDrawdown)
           /\ (ret'.op # "closePosition" => UNCHANGED ledger) ]_vars

\* C12 witness: a losing close after a winning one, so that the peak stays
\* above the equity and a drawdown is on record
C12_Witness ==
    /\ Called("closePosition")
    /\ ret.out.kind = "closed"
    /\ RLt(ret.out.pnlNet, R(0))
    /\ totalWins >= 1
    /\ totalWins < totalTrades
    /\ RGt(peakEquity, R(1))
    /\ RGt(peakEquity, equity)

----------------------------------------------------------------------------
(* C13: the cooldown after a close                                         *)

\* every entry gate of checkEntry(price) except the cooldown
GatesButCooldown(price) ==
    /\ GateReady
    /\ Flat
    /\ GateSlope
    /\ GateZone(price)
    /\ GateAtr

\* C13: a successful closePosition sets cooldownRemaining to COOLDOWN_BARS;
\* every addBar lowers it by exactly one and never below zero; no other call
\* changes it; checkEntry returns no signal while it is positive, even when
\* every other gate passes, and signals again once it is zero.  Entries are
\* therefore blocked for exactly COOLDOWN_BARS appended bars after a close.
C13_Cooldown ==
    /\ [](/\ cooldownRemaining \in 0..cfg.COOLDOWN_BARS
          /\ Called("checkEntry") /\ cooldownRemaining > 0 => ret.out = Null
          /\ Called("checkEntry") /\ cooldownRemaining = 0
                /\ GatesButCooldown(ret.arg) => ret.out # Null)
    /\ [][ /\ (ret'.op = "closePosition" /\ InPosition)
                => cooldownRemaining' = cfg.COOLDOWN_BARS
           /\ (ret'.op = "addBar" /\ cooldownRemaining > 0)
                => cooldownRemaining' = cooldownRemaining - 1
           /\ (ret'.op = "addBar" /\ cooldownRemaining = 0)
                => cooldownRemaining' = 0
           /\ ret'.op \notin {"closePosition", "addBar"}
                => cooldownRemaining' = cooldownRemaining ]_vars

\* C13 witness: checkEntry refused a price that passes every other gate, one
\* bar after a close
C13_Witness ==
    /\ Called("checkEntry")
    /\ totalTrades > 0
    /\ cooldownRemaining = cfg.COOLDOWN_BARS - 1
    /\ cooldownRemaining > 0
    /\ GatesButCooldown(ret.arg)
    /\ ret.out = Null

----------------------------------------------------------------------------
(* C14: the warm-up boundary                                               *)

\* C14: getIndicators().ready is true exactly when the number of bars is at
\* least max(EMA_SLOW_LEN, ATR_LEN) + 5, which is 55 with the default lengths
\* 50 and 14, whatever the bars contain; while it is false checkEntry returns
\* no signal.
C14_WarmupBoundary ==
    /\ warmupOf(DefaultEmaSlowLen, DefaultAtrLen) = 55
    /\ Called("getIndicators") =>
          (ret.out.ready <=> /\ Len(bars) - 5 >= cfg.EMA_SLOW_LEN
                             /\ Len(bars) - 5 >= cfg.ATR_LEN)
    /\ Called("checkEntry")
          /\ (Len(bars) - 5 < cfg.EMA_SLOW_LEN \/ Len(bars) - 5 < cfg.ATR_LEN)
          => ret.out = Null

\* C14 witness: one bar short of the warm-up, checkEntry refused a price that
\* passes every other gate
C14_Witness ==
    /\ Called("checkEntry")
    /\ Len(bars) = IMax(cfg.EMA_SLOW_LEN, cfg.ATR_LEN) + 4
    /\ Flat
    /\ cooldownRemaining = 0
    /\ GateSlope
    /\ GateZone(ret.arg)
    /\ GateAtr
    /\ ret.out = Null

----------------------------------------------------------------------------
(* C19: getState is a projection                                           *)

\* C19: getState changes no field of the engine: configuration, bars,
\* indicator series, cooldown, position and ledger are what they were, so the
\* result of any later call, which is a function of these, is unaffected.
C19_GetStatePure ==
    [][ ret'.op = "getState" =>
          /\ ret'.out.kind = "state"
          /\ UNCHANGED <<cfg, runtime, series, cooldownRemaining, position, ledger>> ]_vars

\* C19 witness: getState was called during a cooldown with a position open
C19_Witness ==
    /\ Called("getState")
    /\ ret.out.cooldownRemaining > 0
    /\ ret.out.position # Null
    /\ ret.out.stats.totalTrades > 0

----------------------------------------------------------------------------
(* C15: the spike clamp                                                    *)

\* x brought into the interval [lo, hi]
Within(x, lo, hi) == IF RLt(x, lo) THEN lo ELSE IF RGt(x, hi) THEN hi ELSE x

\* the bar is a spike against the previous close: open, high or close above
\* 3x, or low below 0.33x
IsSpike(bar, prevClose) ==
    \/ RGt(bar.o, RMul(R(3), prevClose))
    \/ RGt(bar.h, RMul(R(3), prevClose))
    \/ RGt(bar.c, RMul(R(3), prevClose))
    \/ RLt(bar.l, RMul(Frac(33, 100), prevClose))

\* C15: an addBar never drops a bar: the bar count grows by exactly one.  When
\* a previous bar exists and the incoming bar is a spike against its close,
\* the bar is stored with its timestamp and with each of open, high, low and
\* close clamped into [0.33 x prevClose, 3 x prevClose].
C15_SpikeClamp ==
    [][ ret'.op = "addBar" =>
          /\ Len(bars') = Len(bars) + 1
          /\ (Len(bars) > 0 /\ IsSpike(ret'.arg, bars[Len(bars)].c)) =>
                LET prev   == bars[Len(bars)].c
                    lo     == RMul(Frac(33, 100), prev)
                    hi     == RMul(R(3), prev)
                    stored == bars'[Len(bars')]
                    in     == ret'.arg
                IN  /\ stored.t = in.t
                    /\ stored.o = Within(in.o, lo, hi)
                    /\ stored.h = Within(in.h, lo, hi)
                    /\ stored.l = Within(in.l, lo, hi)
                    /\ stored.c = Within(in.c, lo, hi)
                    /\ \A x \in {stored.o, stored.h, stored.l, stored.c} :
                          RLe(lo, x) /\ RLe(x, hi) ]_vars

\* C15 witness: a bar whose low spiked below 0.33 x the previous close was
\* stored with the low raised to that bound
C15_Witness ==
    /\ Called("addBar")
    /\ Len(bars) > 1
    /\ RLt(ret.arg.l, RMul(Frac(33, 100), bars[Len(bars) - 1].c))
    /\ bars[Len(bars)].l = RMul(Frac(33, 100), bars[Len(bars) - 1].c)
    /\ bars[Len(bars)].h = ret.arg.h

----------------------------------------------------------------------------
(* C16, C17: the bar aggregator                                            *)

\* the start in ms of the bucket that holds time ms
BucketOf(ms) == ms - (ms % BAR_MS)

\* the largest and the smallest of the observed prices
RECURSIVE MaxPrice(_)
MaxPrice(obs) ==
    IF Len(obs) = 1 THEN obs[1].price
    ELSE LET m == MaxPrice(Tail(obs))
         IN  IF RLt(m, obs[1].price) THEN obs[1].price ELSE m

RECURSIVE MinPrice(_)
MinPrice(obs) ==
    IF Len(obs) = 1 THEN obs[1].price
    ELSE LET m == MinPrice(Tail(obs))
         IN  IF RGt(m, obs[1].price) THEN obs[1].price ELSE m

\* a mainLoop step that got a price
Ticked == ret'.op = "mainLoop" /\ ret'.out.kind = "tick"

\* the tick falls in another bucket than the observations so far
Rollover == observed # <<>> /\ BucketOf(ret'.out.now) # BucketOf(observed[1].at)

\* C16: a bar emitted on a rollover has open = the first price observed in
\* the bucket, high = the largest, low = the smallest, close = the last, and
\* timestamp = the bucket start in seconds; after a rollover the new bucket
\* holds the current price as open, high, low and close.
C16_BarContent ==
    [][ Ticked =>
          /\ ret'.out.isNewBar =>
                /\ observed # <<>>
                /\ ret'.out.bar.o = observed[1].price
                /\ ret'.out.bar.h = MaxPrice(observed)
                /\ ret'.out.bar.l = MinPrice(observed)
                /\ ret'.out.bar.c = observed[Len(observed)].price
                /\ ret'.out.bar.t * 1000 = BucketOf(observed[1].at)
                /\ \A i \in 1..Len(observed) :
                      BucketOf(observed[i].at) = ret'.out.bar.t * 1000
          /\ (observed = <<>> \/ Rollover) =>
                /\ currentBarStart' = BucketOf(ret'.out.now)
                /\ currentBarOpen' = ret'.arg
                /\ currentBarHigh' = ret'.arg
                /\ currentBarLow' = ret'.arg
                /\ currentBarClose' = ret'.arg ]_vars

\* C16 witness: a bar was emitted whose high is neither its open nor its close
C16_Witness ==
    /\ Called("mainLoop")
    /\ ret.out.kind = "tick"
    /\ ret.out.isNewBar
    /\ ret.out.bar.h # ret.out.bar.o
    /\ ret.out.bar.h # ret.out.bar.c
    /\ bars[Len(bars)] = ret.out.bar

\* C17: the first observation emits no bar; an observation in the open bucket
\* emits no bar and leaves the bars unchanged; a rollover from a bucket with
\* at least one observation appends exactly one bar.
C17_Emission ==
    [][ Ticked =>
          /\ observed = <<>> => ~ret'.out.isNewBar /\ bars' = bars
          /\ (observed # <<>> /\ ~Rollover) => ~ret'.out.isNewBar /\ bars' = bars
          /\ Rollover =>
                /\ ret'.out.isNewBar
                /\ Len(bars') = Len(bars) + 1
                /\ SubSeq(bars', 1, Len(bars)) = bars ]_vars

\* C17 witness: a rollover over a bucket that passed without a poll appended
\* one bar
C17_Witness ==
    /\ Called("mainLoop")
    /\ ret.out.kind = "tick"
    /\ ret.out.isNewBar
    /\ Len(bars) = 1
    /\ ret.out.now - ret.out.bar.t * 1000 >= 2 * BAR_MS

----------------------------------------------------------------------------
(* C18: the bars are ordered by time                                       *)

\* C18: the timestamps of the strategy's bars are strictly increasing in
\* every reachable state, after the restore of the saved bars and the merge
\* of the backfill history as well as after live bars.
C18_BarsOrdered ==
    \A i \in 1..(Len(bars) - 1) : bars[i].t < bars[i + 1].t

----------------------------------------------------------------------------
(* C20: a failed I/O step of a trade                                       *)

\* C20: when an await of executeBuy or executeSell fails (balance fetch,
\* quote fetch, swap-transaction build, send or confirmation), the position
\* and every ledger field are left as they were.
C20_FailedIoKeepsState ==
    [][ (ret'.op \in {"executeBuy", "executeSell"} /\ ret'.out.kind = "failed")
          => UNCHANGED <<position, ledger>> ]_vars

----------------------------------------------------------------------------
(* C21: closePosition with no position                                     *)

\* C21: over every interleaving of overlapping mainLoop ticks and
\* /admin/close requests, closePosition is never invoked while no position
\* is open: no executeSell runs into "No position to close".
C21_CloseNeverThrows ==
    ~(ret.op = "executeSell" /\ ret.out.threw)

----------------------------------------------------------------------------
(* C22: openPosition over an open position                                 *)

\* C22: over every interleaving of overlapping mainLoop ticks, openPosition
\* is never invoked while a position is open: a buy that opens a position
\* finds none.
C22_OpenOnlyWhenFlat ==
    [][ (ret'.op = "executeBuy" /\ ret'.arg = "confirm" /\ ret'.out.kind = "ok")
          => position = Null ]_vars

----------------------------------------------------------------------------
(* C23: the saved state after a restart                                    *)

\* C23: when init() has run on a disk that holds a saved state, the position
\* (or none), the cooldown and the six ledger fields of the engine equal the
\* saved ones.
C23_RoundTrip ==
    [][ (ret'.op = "init" /\ stateFile.kind = "json") =>
          /\ position' = stateFile.value.position
          /\ cooldownRemaining' = stateFile.value.cooldownRemaining
          /\ totalTrades' = stateFile.value.totalTrades
          /\ totalWins' = stateFile.value.totalWins
          /\ totalPnlPct' = stateFile.value.totalPnlPct
          /\ equity' = stateFile.value.equity
          /\ peakEquity' = stateFile.value.peakEquity
          /\ maxDrawdown' = stateFile.value.maxDrawdown ]_vars

----------------------------------------------------------------------------
(* C24: the three arming conditions                                        *)

\* ENABLE_SWAPS=true, ALLOW_MAINNET_SWAPS=true and SOLANA_CLUSTER=mainnet-beta
AllThreeSet ==
    /\ cfg.ENABLE_SWAPS = TRUE
    /\ cfg.ALLOW_MAINNET_SWAPS = TRUE
    /\ cfg.SOLANA_CLUSTER = "mainnet-beta"

\* C24: unless all three arming conditions hold, no step of executeBuy or
\* executeSell beyond the shadow branch is taken, so no call awaits a swap,
\* a send or a confirmation, and every position opened carries the "shadow"
\* signature; a transaction is sent only with all three set.
C24_ArmedOnly ==
    [][ /\ ~AllThreeSet =>
              /\ ret'.op \notin {"executeBuy", "executeSell"}
              /\ \A t \in DOMAIN tasks : tasks'[t].pc \in {"idle", "poll"}
              /\ position' # Null => position'.txSignature = "shadow"
        /\ (ret'.op \in {"executeBuy", "executeSell"} /\ ret'.arg = "send")
              => AllThreeSet ]_vars

\* C24 witness: with only the cluster short of the three conditions, a
\* position was opened and closed as a shadow trade
C24_Witness ==
    /\ cfg.ENABLE_SWAPS /\ cfg.ALLOW_MAINNET_SWAPS /\ cfg.SOLANA_CLUSTER = "devnet"
    /\ totalTrades > 0
    /\ tradesFile.kind = "json"
    /\ stateFile.kind = "json"

-----------------------------------------------------------------------------
(* C25: the admin endpoints                                                *)

\* the request presents the configured admin token
PresentsAdminToken(token) == token.kind = "token" /\ token.value = cfg.ADMIN_TOKEN

\* C25: a request to /admin/save or /admin/close that does not present the
\* matching admin token is answered 403 and neither persists the state nor
\* closes the position, whatever ADMIN_TOKEN is configured.
C25_AdminGuarded ==
    [][ (ret'.op \in {"adminSave", "adminClose"} /\ ~PresentsAdminToken(ret'.arg))
            => /\ ret'.out.kind = "403"
               /\ UNCHANGED <<stateFile, barsFile, tradesFile, position>> ]_vars

-----------------------------------------------------------------------------
(* C26: a live position has a positive entry price and a positive size     *)

\* C26: whenever a position is open, whether it was opened by a shadow buy
\* or by a confirmed swap, its entryPrice and its tokenAmount are above zero.
C26_LivePositionPositive ==
    position # Null =>
        /\ RGt(position.entryPrice, R(0))
        /\ RGt(position.tokenAmount, R(0))

\* C26 witness: a position opened by a confirmed swap is live and persisted
C26_Witness ==
    /\ position # Null
    /\ position.txSignature = "tx"
    /\ stateFile.kind = "json"
    /\ stateFile.value.position = position

-----------------------------------------------------------------------------
(* C27: the trade log is append-only                                       *)

\* the trade records a log file holds
storedTrades(file) == IF file.kind = "absent" THEN <<>> ELSE file.value

\* C27: every step that closes a trade leaves the records the log held
\* before in place, unchanged and in order, and adds exactly one record
\* after them, whatever the log file was like before.
C27_AppendOnly ==
    [][ totalTrades' # totalTrades =>
            /\ tradesFile'.kind = "json"
            /\ Len(tradesFile'.value) = Len(storedTrades(tradesFile)) + 1
            /\ SubSeq(tradesFile'.value, 1, Len(storedTrades(tradesFile)))
                   = storedTrades(tradesFile) ]_vars

-----------------------------------------------------------------------------
(* C28: bars at one constant price                                         *)

\* C28: when every bar from the first has open = high = low = close = c,
\* after every addBar emaFast and emaSlow equal c, atr and slope are 0, and
\* checkEntry returns no signal.
C28_ConstantBars ==
    bars # <<>> =>
        /\ getIndicators.emaFast = bars[1].c
        /\ getIndicators.emaSlow = bars[1].c
        /\ getIndicators.atr = R(0)
        /\ getIndicators.slope = R(0)
        /\ ret.op = "checkEntry" => ret.out = Null

-----------------------------------------------------------------------------
(* C29: the order of checks within one tick                                *)

SellPcs == {"sellBalance", "sellQuote", "sellSwap", "sellSend", "sellConfirm"}

BuyPcs == {"buyBalance", "buyQuote", "buySwap", "buySend", "buyConfirm"}

\* C29: a tick that finds a position open runs the exit check and no entry
\* check; an entry signal is raised only on a tick that completed a bar and
\* found no position; no tick raises both signals or closes and opens, and
\* the asynchronous rest of a tick stays a sell or stays a buy.
C29_TickProtocol ==
    [][ /\ (ret'.op = "mainLoop" /\ ret'.out.kind = "tick") =>
              /\ position # Null => ret'.out.entry = Null
              /\ ret'.out.entry # Null => ret'.out.isNewBar /\ position = Null
              /\ ret'.out.exit # Null => position # Null /\ ret'.out.entry = Null
              /\ ret'.out.closed # Null => ret'.out.exit # Null /\ position' = Null
              /\ position' # Null => position = Null \/ totalTrades' = totalTrades
              /\ \A t \in DOMAIN tasks :
                    /\ tasks'[t].pc \in SellPcs /\ tasks[t].pc \notin SellPcs
                          => ret'.out.exit # Null
                    /\ tasks'[t].pc \in BuyPcs /\ tasks[t].pc \notin BuyPcs
                          => ret'.out.entry # Null
        /\ ret'.op = "executeSell" =>
              /\ position' = position \/ position' = Null
              /\ \A t \in DOMAIN tasks :
                    tasks'[t] # tasks[t] =>
                        tasks[t].pc \in SellPcs /\ tasks'[t].pc \in SellPcs \cup {"idle"}
        /\ ret'.op = "executeBuy" =>
              /\ totalTrades' = totalTrades
              /\ \A t \in DOMAIN tasks :
                    tasks'[t] # tasks[t] =>
                        tasks[t].pc \in BuyPcs /\ tasks'[t].pc \in BuyPcs \cup {"idle"}
      ]_vars

\* C29 witness: a tick found the position open, closed it on the exit
\* signal and left the engine flat
C29_Witness ==
    /\ ret.op = "mainLoop"
    /\ ret.out.kind = "tick"
    /\ ret.out.closed # Null
    /\ ret.out.entry = Null
    /\ position = Null
    /\ totalTrades = 1

-----------------------------------------------------------------------------
(* C30: bars held and the timeout                                          *)

\* C30: openPosition records entryBar = bar count - 1, which makes the bars
\* held 0; every addBar while the position lives adds exactly one to the
\* bars held and no other call changes them; checkExit reports that number
\* as barsHeld, and with tp2, tp1 and sl not matching it answers "timeout"
\* exactly when barsHeld >= MAX_BARS_IN_POS and nothing otherwise.
C30_BarsHeld ==
    [][ /\ ret'.op = "openPosition" =>
              /\ position'.entryBar = Len(bars) - 1
              /\ Len(bars') - 1 - position'.entryBar = 0
        /\ (ret'.op = "addBar" /\ position # Null) =>
              /\ position' # Null
              /\ (Len(bars') - 1 - position'.entryBar)
                     = (Len(bars) - 1 - position.entryBar) + 1
        /\ (ret'.op \notin {"addBar", "openPosition"} /\ position # Null
                /\ position' # Null) =>
              (Len(bars') - 1 - position'.entryBar) = (Len(bars) - 1 - position.entryBar)
        /\ (ret'.op = "checkExit" /\ position # Null) =>
              /\ ret'.out # Null => ret'.out.barsHeld = HeldBars
              /\ (~Tp2Hit(ret'.arg) /\ ~Tp1Hit(ret'.arg) /\ ~SlHit(ret'.arg)) =>
                    IF HeldBars >= cfg.MAX_BARS_IN_POS
                    THEN ret'.out # Null /\ ret'.out.reason = "timeout"
                    ELSE ret'.out = Null
              /\ (ret'.out # Null /\ ret'.out.reason = "timeout") =>
                    HeldBars >= cfg.MAX_BARS_IN_POS
      ]_vars

\* C30 witness: exactly MAX_BARS_IN_POS bars were appended to the two that
\* were loaded when the position was opened, and checkExit answered "timeout"
C30_Witness ==
    /\ Called("checkExit")
    /\ InPosition
    /\ position.entryBar = 1
    /\ Len(bars) = 2 + cfg.MAX_BARS_IN_POS
    /\ Reason = "timeout"
    /\ ret.out.barsHeld = cfg.MAX_BARS_IN_POS

-----------------------------------------------------------------------------
(* C31, C32: the ATR series and the four parallel series                   *)

\* tr of the stored bar i (1-based): max(high - low, |high - prevClose|,
\* |low - prevClose|), and high - low for the first bar
TrAt(i) ==
    IF i = 1 THEN RSub(bars[1].h, bars[1].l)
    ELSE RMax(RSub(bars[i].h, bars[i].l),
              RMax(RAbs(RSub(bars[i].h, bars[i - 1].c)),
                   RAbs(RSub(bars[i].l, bars[i - 1].c))))

RECURSIVE TrTotal(_)
TrTotal(i) == IF i = 0 THEN R(0) ELSE RAdd(TrTotal(i - 1), TrAt(i))

\* C31: the ATR of the first bar is high - low; for each later bar among the
\* first ATR_LEN it is the mean of all true ranges so far; from the bar
\* after them on it is (previous ATR * (ATR_LEN - 1) + tr) / ATR_LEN.
C31_AtrSeries ==
    /\ Len(atrArr) = Len(bars)
    /\ \A i \in 1..Len(bars) :
          atrArr[i] = IF i = 1 THEN RSub(bars[1].h, bars[1].l)
                      ELSE IF i <= cfg.ATR_LEN THEN RDiv(TrTotal(i), R(i))
                      ELSE RDiv(RAdd(RMul(atrArr[i - 1], R(cfg.ATR_LEN - 1)), TrAt(i)),
                                R(cfg.ATR_LEN))

\* C31 witness: the first smoothed value has been pushed and differs from
\* the mean of the true ranges
C31_Witness ==
    /\ Len(bars) = cfg.ATR_LEN + 1
    /\ RGt(atrArr[Len(bars)], R(0))
    /\ atrArr[Len(bars)] # RDiv(TrTotal(Len(bars)), R(Len(bars)))
    /\ atrArr[Len(bars)] # atrArr[Len(bars) - 1]

\* C32: the bar list and the three indicator series always have the same
\* length, and every addBar, clamping the bar or not, makes each of the
\* four exactly one longer.
C32_ParallelSeries ==
    /\ [](/\ Len(emaFastArr) = Len(bars)
          /\ Len(emaSlowArr) = Len(bars)
          /\ Len(atrArr) = Len(bars))
    /\ [][ ret'.op = "addBar" =>
              /\ Len(bars') = Len(bars) + 1
              /\ Len(emaFastArr') = Len(emaFastArr) + 1
              /\ Len(emaSlowArr') = Len(emaSlowArr) + 1
              /\ Len(atrArr') = Len(atrArr) + 1 ]_vars

\* C32 witness: a spike-clamped bar was appended as the third bar and all
\* four series hold three entries
C32_Witness ==
    /\ Called("addBar")
    /\ bars[Len(bars)] # ret.arg
    /\ Len(bars) = 3
    /\ Len(emaFastArr) = 3
    /\ Len(emaSlowArr) = 3
    /\ Len(atrArr) = 3

-----------------------------------------------------------------------------
(* C33: saveState and a process that stops                                 *)

\* C33: whatever step of saveState the process stops at, the state file is
\* never a partial write: it is absent or holds a complete state, every
\* change of it installs the complete state of the engine at that moment,
\* and a later init() restores the position and the ledger of the state the
\* file holds.
C33_AtomicSave ==
    /\ [](stateFile.kind \in {"absent", "json"})
    /\ [][ /\ stateFile' # stateFile =>
                /\ stateFile'.kind = "json"
                /\ stateFile'.value.position = position'
                /\ stateFile'.value.cooldownRemaining = cooldownRemaining'
                /\ stateFile'.value.totalTrades = totalTrades'
                /\ stateFile'.value.totalWins = totalWins'
                /\ stateFile'.value.totalPnlPct = totalPnlPct'
                /\ stateFile'.value.equity = equity'
                /\ stateFile'.value.peakEquity = peakEquity'
                /\ stateFile'.value.maxDrawdown = maxDrawdown'
           /\ ret'.op = "restart" => stateFile' = stateFile
           /\ (ret'.op = "init" /\ stateFile.kind = "json") =>
                /\ position' = stateFile.value.position
                /\ totalTrades' = stateFile.value.totalTrades
                /\ equity' = stateFile.value.equity ]_vars

\* C33 witness: the process stopped while the temporary file was half
\* written, and init() restored the state saved before, with one trade closed
C33_Witness ==
    /\ Called("init")
    /\ stateTmp.kind = "damaged"
    /\ stateFile.kind = "json"
    /\ stateTmp.value # stateFile.value
    /\ totalTrades = 1
    /\ stateFile.value.totalTrades = 1

-----------------------------------------------------------------------------
(* C34: sell transactions per position                                     *)

\* C34: over every interleaving of overlapping mainLoop ticks and
\* /admin/close requests in armed mode, at most one sell swap transaction
\* is submitted for an opened position: no two executeSell calls for the
\* same position are both past sendRawTransaction.
C34_OneSellPerPosition ==
    \A t, u \in DOMAIN tasks :
        (t # u /\ tasks[t].pc = "sellConfirm" /\ tasks[u].pc = "sellConfirm")
            => tasks[t].pos # tasks[u].pos

-----------------------------------------------------------------------------
(* C35: one trade record per close                                         *)

\* C35: in every state with no tick in flight, the trade log holds as many
\* records as positions have been closed since the start (totalTrades), and
\* the record of the latest close carries the ledger equity that close left.
C35_OneRecordPerClose ==
    (\A t \in DOMAIN tasks : tasks[t].pc = "idle") =>
        /\ Len(storedTrades(tradesFile)) = totalTrades
        /\ totalTrades > 0 =>
              storedTrades(tradesFile)[totalTrades].equityAfter = equity

-----------------------------------------------------------------------------
(* C36: bars held across a restart                                         *)

\* C36: for a position that was open when the state was saved, the bars
\* held that checkExit computes once init() has run (the saved bars
\* reloaded, plus the bars of the historical backfill) equal the bars held
\* over the saved bars before the restart, and are not negative.
C36_BarsHeldContinuity ==
    [][ (ret'.op = "init" /\ position' # Null) =>
            /\ Len(bars') - 1 - position'.entryBar
                 = Len(loadBars(barsFile)) - 1 - position'.entryBar
            /\ Len(bars') - 1 - position'.entryBar >= 0 ]_vars

-----------------------------------------------------------------------------
(* C37: no position held past the bar limit                                *)

\* C37: whenever a position is open and has been held for MAX_BARS_IN_POS
\* bars or more, checkExit returns an exit signal, for every price and
\* under every setting of TP2_PCT and TRAIL_PCT.
C37_ExitAtBarLimit ==
    [][ ( /\ ret'.op = "checkExit"
          /\ position # Null
          /\ Len(bars) - 1 - position.entryBar >= MAX_BARS_IN_POS )
          => ret'.out # Null ]_vars

-----------------------------------------------------------------------------
(* C38: eventual exit in shadow mode                                       *)

\* C38: in shadow mode, with polls that keep succeeding and bars that keep
\* being completed, every position open with MAX_BARS_IN_POS buckets still
\* to come is eventually closed by a tick that leaves the engine flat with
\* cooldownRemaining = COOLDOWN_BARS, and no tick leaves a position open
\* once MAX_BARS_IN_POS bars have been appended since its entry.
C38_EventualExit ==
    /\ (position # Null /\ clock + MAX_BARS_IN_POS * BAR_MS <= LiveHorizon)
          ~> (position = Null /\ cooldownRemaining = COOLDOWN_BARS)
    /\ [][ (ret'.op = "mainLoop" /\ ret'.out.kind = "tick" /\ position' # Null)
              => Len(bars') - 1 - position'.entryBar < MAX_BARS_IN_POS ]_vars

====
